---- MODULE Spec2Model ----
(***************************************************************************)
(* Model of the tick-to-signal pipeline of the Fyers trading application:  *)
(*   - the resolution normalisation of Strategy.setResolution and of       *)
(*     TradingService.getHistoricalData (src/src/strategy.js,              *)
(*     src/src/tradingService.js),                                         *)
(*   - the candle store CandleDB (src/unnamed/part_007, candleDB.js),      *)
(*   - the strategy engine Strategy (src/src/strategy.js).                 *)
(*                                                                         *)
(* Conventions.                                                            *)
(*   Strings the program inspects character by character (resolutions)     *)
(*   are sequences of one-character strings: "15M" is <<"1","5","M">>.     *)
(*   A nullable value is <<>> (null / undefined / absent) or <<v>>.        *)
(*   Timestamps are counted in minutes since 1970-01-01 00:00 local time   *)
(*   (the program counts seconds; every candle of the model starts on a    *)
(*   whole minute).                                                        *)
(*   An SMA is stored multiplied by SmaScale = 200, the least common       *)
(*   multiple of the periods 20, 50 and 200, so that sum/period is an      *)
(*   integer for integer closes.                                           *)
(***************************************************************************)
EXTENDS Integers, Sequences, FiniteSets, TLC

Null == <<>>

Some(v) == <<v>>

IsNull(x) == x = Null

Val(x) == x[1]

Max2(a, b) == IF a >= b THEN a ELSE b

Min2(a, b) == IF a <= b THEN a ELSE b

(***************************************************************************)
(* Character strings                                                       *)
(***************************************************************************)
Digits == {"0", "1", "2", "3", "4", "5", "6", "7", "8", "9"}

DigitVal(ch) ==
  CASE ch = "0" -> 0 [] ch = "1" -> 1 [] ch = "2" -> 2 [] ch = "3" -> 3
    [] ch = "4" -> 4 [] ch = "5" -> 5 [] ch = "6" -> 6 [] ch = "7" -> 7
    [] ch = "8" -> 8 [] ch = "9" -> 9

DigitChar(d) ==
  CASE d = 0 -> "0" [] d = 1 -> "1" [] d = 2 -> "2" [] d = 3 -> "3"
    [] d = 4 -> "4" [] d = 5 -> "5" [] d = 6 -> "6" [] d = 7 -> "7"
    [] d = 8 -> "8" [] d = 9 -> "9"

\* String.prototype.toUpperCase on the characters of the model's alphabet
UpperChar(ch) ==
  CASE ch = "m" -> "M" [] ch = "h" -> "H" [] ch = "d" -> "D" [] ch = "w" -> "W"
    [] OTHER -> ch

ToUpperCase(s) == [i \in 1..Len(s) |-> UpperChar(s[i])]

RECURSIVE TrimStart(_)
TrimStart(s) ==
  IF Len(s) > 0 /\ s[1] = " " THEN TrimStart(Tail(s)) ELSE s

RECURSIVE TrimEnd(_)
TrimEnd(s) ==
  IF Len(s) > 0 /\ s[Len(s)] = " " THEN TrimEnd(SubSeq(s, 1, Len(s) - 1)) ELSE s

\* String.prototype.trim
Trim(s) == TrimEnd(TrimStart(s))

\* /^\d+$/.test(s)
AllDigits(s) == Len(s) >= 1 /\ \A i \in 1..Len(s) : s[i] \in Digits

\* /^\d+X$/i.test(s) for a letter X, s already in upper case
DigitsThen(s, letter) ==
  /\ Len(s) >= 2
  /\ s[Len(s)] = letter
  /\ \A i \in 1..(Len(s) - 1) : s[i] \in Digits

\* parseInt(s) of a string that starts with digits: the value of the leading digits
RECURSIVE ParseInt(_, _)
ParseInt(s, acc) ==
  IF Len(s) > 0 /\ s[1] \in Digits
    THEN ParseInt(Tail(s), acc * 10 + DigitVal(s[1]))
    ELSE acc

\* String(n) of a non-negative integer
RECURSIVE IntToStr(_)
IntToStr(n) ==
  IF n < 10 THEN <<DigitChar(n)>>
            ELSE Append(IntToStr(n \div 10), DigitChar(n % 10))

(***************************************************************************)
(* Resolution normalisation                                                *)
(***************************************************************************)
\* The result of a normalisation: the token, or the thrown error.
Accepted(r) == [ok |-> TRUE, res |-> r]

Rejected == [ok |-> FALSE, res |-> <<>>]

\* Strategy.setResolution, lines 110-116: the rules applied in sequence
Normalize(input) ==
  LET r0 == Trim(ToUpperCase(input))
      r1 == IF r0 = <<"2", "4", "0">> THEN <<"1", "2", "0">> ELSE r0
      r2 == IF DigitsThen(r1, "M") THEN SubSeq(r1, 1, Len(r1) - 1) ELSE r1
      r3 == IF DigitsThen(r2, "H") THEN IntToStr(ParseInt(r2, 0) * 60) ELSE r2
      r4 == IF r3 = <<"1", "D">> THEN <<"D">> ELSE r3
  IN  IF r4 # <<"D">> /\ r4 # <<"W">> /\ r4 # <<"M">> /\ ~AllDigits(r4)
        THEN Rejected
        ELSE Accepted(r4)

\* TradingService.getHistoricalData, lines 199-206
FetcherNormalize(resolution) ==
  LET res0 == Trim(ToUpperCase(resolution))
      res1 == IF res0 = <<"2", "4", "0">> THEN <<"1", "2", "0">> ELSE res0
      res2 == IF DigitsThen(res1, "M") THEN SubSeq(res1, 1, Len(res1) - 1) ELSE res1
      res3 == IF DigitsThen(res2, "H") THEN IntToStr(ParseInt(res2, 0) * 60) ELSE res2
      res4 == IF res3 = <<"1", "D">> THEN <<"D">> ELSE res3
  IN  IF res4 # <<"D">> /\ res4 # <<"W">> /\ res4 # <<"M">> /\ ~AllDigits(res4)
        THEN Rejected
        ELSE Accepted(res4)

\* candleDB.js normalizeResolution: early returns, no "240" rule, no validation
normalizeResolution(res) ==
  LET r == Trim(ToUpperCase(res))
  IN  IF DigitsThen(r, "M") THEN SubSeq(r, 1, Len(r) - 1)
      ELSE IF DigitsThen(r, "H") THEN IntToStr(ParseInt(r, 0) * 60)
      ELSE IF r = <<"1", "D">> THEN <<"D">>
      ELSE r

(***************************************************************************)
(* Calendar (moment.js on local time)                                      *)
(***************************************************************************)
MinutesPerDay == 24 * 60

\* the local calendar day (days since 1970-01-01) a timestamp falls on
DayOf(ts) == ts \div MinutesPerDay

\* days since 1970-01-01 of the civil date y-m-d (proleptic Gregorian)
DaysFromCivil(y, m, d) ==
  LET yy  == IF m <= 2 THEN y - 1 ELSE y
      era == yy \div 400
      yoe == yy - era * 400
      mp  == IF m > 2 THEN m - 3 ELSE m + 9
      doy == (153 * mp + 2) \div 5 + d - 1
      doe == yoe * 365 + yoe \div 4 - yoe \div 100 + doy
  IN  era * 146097 + doe - 719468

\* the civil date of a day number, as [y, m, d]
CivilFromDays(day) ==
  LET z   == day + 719468
      era == z \div 146097
      doe == z - era * 146097
      yoe == (doe - doe \div 1460 + doe \div 36524 - doe \div 146096) \div 365
      doy == doe - (365 * yoe + yoe \div 4 - yoe \div 100)
      mp  == (5 * doy + 2) \div 153
      d   == doy - (153 * mp + 2) \div 5 + 1
      m   == IF mp < 10 THEN mp + 3 ELSE mp - 9
      y   == yoe + era * 400 + (IF m <= 2 THEN 1 ELSE 0)
  IN  [y |-> y, m |-> m, d |-> d]

\* moment#year()
Year(day) == CivilFromDays(day).y

\* moment#format("MM"), as a number
MonthOf(day) == CivilFromDays(day).m

\* moment#isoWeekday(): Monday = 1 .. Sunday = 7 (1970-01-01 was a Thursday)
IsoWeekday(day) == ((day + 3) % 7) + 1

\* moment#isoWeek(): the week number of the ISO week the day falls in
IsoWeek(day) ==
  LET thursday == day - IsoWeekday(day) + 4
      jan1     == DaysFromCivil(Year(thursday), 1, 1)
  IN  (thursday - jan1) \div 7 + 1

(***************************************************************************)
(* Candles and the candle store (CandleDB, candleDB.js)                    *)
(*                                                                         *)
(* A candle is the record [t, o, h, l, c, v] of the program's array        *)
(* [timestamp, open, high, low, close, volume].  The table `candles` is a  *)
(* function from the partitions <<symbol, resolution>> that hold rows to   *)
(* the rows of the partition, kept as a sequence in ascending order of the *)
(* primary-key column `timestamp`, one row per key.                        *)
(***************************************************************************)
\* 10 x 20 = 4 x 50 = 1 x 200
SmaScale == 10 * 20

Candle(t, o, h, l, c, v) == [t |-> t, o |-> o, h |-> h, l |-> l, c |-> c, v |-> v]

\* Loops over an array are written as a recursion that splits the index range in
\* halves and threads the loop's state through the halves in order: the steps
\* run in the order of the program's loop.  (The test on the left half's result
\* only makes the evaluation finish the left half before it starts the right.)
RECURSIVE SumRange(_, _, _)
SumRange(arr, lo, hi) ==
  IF lo > hi THEN 0
  ELSE IF lo = hi THEN arr[lo]
  ELSE LET mid == (lo + hi) \div 2
       IN  SumRange(arr, lo, mid) + SumRange(arr, mid + 1, hi)

SumSeq(arr) == SumRange(arr, 1, Len(arr))

\* arr.reduce((s, x) => s + x, 0) / arr.length, times SmaScale
Avg(arr) == (SumSeq(arr) * SmaScale) \div Len(arr)

ResD == <<"D">>

ResW == <<"W">>

ResM == <<"M">>

\* parseInt(s) is NaN unless s starts with a digit; a comparison with NaN is false
ParsesBelow(s, limit) ==
  Len(s) > 0 /\ s[1] \in Digits /\ ParseInt(s, 0) < limit

\* storeCandles, lines 916-939: the text of the `timestamp` column.  The text is
\* represented by the minute it denotes: 'YYYY-MM-DD' by the first minute of the
\* day, 'YYYY-MM-DD_HH:mm' by the minute, 'YYYY-MM-DD_HHh' by the first minute of
\* the hour.  Within a partition every key has one format, so the order of the
\* texts is the order of these numbers.
FormatTimestamp(normalizedResolution, ts) ==
  IF normalizedResolution \in {ResD, ResW, ResM}
    THEN DayOf(ts) * MinutesPerDay
  ELSE IF ParsesBelow(normalizedResolution, 60) THEN ts
  ELSE IF ParsesBelow(normalizedResolution, 1440) THEN ts - (ts % 60)
  ELSE DayOf(ts) * MinutesPerDay

\* storeCandles, lines 941-954: the row inserted for a candle
RowOf(normalizedResolution, cndl) ==
  [timestamp      |-> FormatTimestamp(normalizedResolution, cndl.t),
   unix_timestamp |-> cndl.t,
   open   |-> cndl.o, high |-> cndl.h, low |-> cndl.l, close |-> cndl.c,
   volume |-> cndl.v,
   sma20  |-> Null, sma50 |-> Null, sma200 |-> Null]

EmptyDB == [pk \in {} |-> <<>>]

\* the rows WHERE symbol = ? AND resolution = ?, ORDER BY timestamp ASC
Part(d, symbol, nres) ==
  IF <<symbol, nres>> \in DOMAIN d THEN d[<<symbol, nres>>] ELSE <<>>

SetPart(d, symbol, nres, rows) ==
  [pk \in (DOMAIN d) \cup {<<symbol, nres>>} |->
     IF pk = <<symbol, nres>> THEN rows ELSE d[pk]]

\* the least index of rows whose key is >= key, Len(rows) + 1 if there is none
RECURSIVE LowerBound(_, _, _, _)
LowerBound(rows, key, lo, hi) ==
  IF lo >= hi THEN lo
  ELSE LET mid == (lo + hi) \div 2
       IN  IF rows[mid].timestamp < key
             THEN LowerBound(rows, key, mid + 1, hi)
             ELSE LowerBound(rows, key, lo, mid)

\* a variant of InsertOrReplace that is a plain INSERT without the primary key
InsertNoReplace(rows, row) ==
  LET i == LowerBound(rows, row.timestamp, 1, Len(rows) + 1)
  IN  SubSeq(rows, 1, i - 1) \o <<row>> \o SubSeq(rows, i, Len(rows))

\* INSERT OR REPLACE INTO candles, lines 686-692: the primary key is
\* (symbol, resolution, timestamp)
InsertOrReplace(rows, row) ==
  LET i == LowerBound(rows, row.timestamp, 1, Len(rows) + 1)
  IN  IF i <= Len(rows) /\ rows[i].timestamp = row.timestamp
        THEN [rows EXCEPT ![i] = row]
        ELSE SubSeq(rows, 1, i - 1) \o <<row>> \o SubSeq(rows, i, Len(rows))

\* lines 958-959: the rows are inserted in the order of the array
RECURSIVE InsertRange(_, _, _, _, _)
InsertRange(rows, nres, candlesArr, lo, hi) ==
  IF lo > hi THEN rows
  ELSE IF lo = hi THEN InsertOrReplace(rows, RowOf(nres, candlesArr[lo]))
  ELSE LET mid  == (lo + hi) \div 2
           left == InsertRange(rows, nres, candlesArr, lo, mid)
       IN  IF Len(left) >= 0
             THEN InsertRange(left, nres, candlesArr, mid + 1, hi)
             ELSE left

InsertAll(rows, nres, candlesArr) ==
  InsertRange(rows, nres, candlesArr, 1, Len(candlesArr))

\* buf.push(close); if (buf.length > n) buf.shift()
PushShift(buf, close, n) ==
  LET b == Append(buf, close) IN IF Len(b) > n THEN Tail(b) ELSE b

\* a variant of SmaOfBuf that averages a window that is not yet full
SmaOfBufPartial(buf, n) == Some(Avg(buf))

\* lines 1229-1231: buf.length === n ? avg(buf) : null
SmaOfBuf(buf, n) == IF Len(buf) = n THEN Some(Avg(buf)) ELSE Null

\* _recalcSMA, lines 1222-1234: the body of rows.forEach for row i
RecalcStep(st, i) ==
  LET b20  == PushShift(st.buf20, st.rows[i].close, 20)
      b50  == PushShift(st.buf50, st.rows[i].close, 50)
      b200 == PushShift(st.buf200, st.rows[i].close, 200)
      upd  == [st.rows[i] EXCEPT !.sma20  = SmaOfBuf(b20, 20),
                                 !.sma50  = SmaOfBuf(b50, 50),
                                 !.sma200 = SmaOfBuf(b200, 200)]
  IN  [rows |-> [st.rows EXCEPT ![i] = upd],
       buf20 |-> b20, buf50 |-> b50, buf200 |-> b200]

RECURSIVE RecalcRange(_, _, _)
RecalcRange(st, lo, hi) ==
  IF lo > hi THEN st
  ELSE IF lo = hi THEN RecalcStep(st, lo)
  ELSE LET mid  == (lo + hi) \div 2
           left == RecalcRange(st, lo, mid)
       IN  IF Len(left.rows) >= 0 THEN RecalcRange(left, mid + 1, hi) ELSE left

\* _recalcSMA(symbol, resolution), on the rows of the partition in key order
_recalcSMA(rows) ==
  RecalcRange([rows |-> rows, buf20 |-> <<>>, buf50 |-> <<>>, buf200 |-> <<>>],
              1, Len(rows)).rows

\* storeCandles(symbol, resolution, candlesArr), lines 900-965
storeCandles(d, symbol, resolution, candlesArr) ==
  LET nres == normalizeResolution(resolution)
  IN  IF Len(candlesArr) = 0 THEN d
      ELSE SetPart(d, symbol, nres,
                   _recalcSMA(InsertAll(Part(d, symbol, nres), nres, candlesArr)))

\* getCandles(symbol, resolution, fromTS, toTS), lines 967-995.  Rows in key order
\* are in unix_timestamp order: a key is its row's timestamp rounded down to the
\* key's unit, and the keys of a partition differ.
getCandles(d, symbol, resolution, fromTS, toTS) ==
  LET rows == Part(d, symbol, normalizeResolution(resolution))
      sel  == SelectSeq(rows, LAMBDA r : fromTS <= r.unix_timestamp /\ r.unix_timestamp <= toTS)
  IN  [i \in 1..Len(sel) |->
         Candle(sel[i].unix_timestamp, sel[i].open, sel[i].high, sel[i].low,
                sel[i].close, sel[i].volume)]

SmaPeriods == {20, 50, 200}

SmaColumn(row, period) ==
  CASE period = 20 -> row.sma20 [] period = 50 -> row.sma50 [] period = 200 -> row.sma200

\* WHERE sma<period> IS NOT NULL; period 0 stands for the conjunction over the
\* three columns
HasSMA(row, period) ==
  IF period = 0 THEN row.sma20 # Null /\ row.sma50 # Null /\ row.sma200 # Null
                ELSE SmaColumn(row, period) # Null

\* the greatest index in lo..hi of a row that has the column(s), 0 if there is
\* none: ORDER BY ... DESC LIMIT 1 over the rows that pass the WHERE clause
RECURSIVE LastIndex(_, _, _, _)
LastIndex(rows, period, lo, hi) ==
  IF lo > hi THEN 0
  ELSE IF lo = hi THEN (IF HasSMA(rows[lo], period) THEN lo ELSE 0)
  ELSE LET mid   == (lo + hi) \div 2
           right == LastIndex(rows, period, mid + 1, hi)
       IN  IF right # 0 THEN right ELSE LastIndex(rows, period, lo, mid)

\* getCachedSMA(symbol, resolution, period), lines 1017-1037: the value of
\* {value}, null for {value: null}
getCachedSMA(d, symbol, resolution, period) ==
  LET rows == Part(d, symbol, normalizeResolution(resolution))
  IN  IF period \notin SmaPeriods THEN Null
      ELSE LET i == LastIndex(rows, period, 1, Len(rows))
           IN  IF i = 0 THEN Null ELSE SmaColumn(rows[i], period)

NoSMA == [sma20 |-> Null, sma50 |-> Null, sma200 |-> Null]

SmaTriple(row) == [sma20 |-> row.sma20, sma50 |-> row.sma50, sma200 |-> row.sma200]

Res1 == <<"1">>

Res5 == <<"5">>

Res60 == <<"6", "0">>

Res120 == <<"1", "2", "0">>

\* the resolutions with a view and a prepared statement, lines 698 and 741-747
KeyResolutions == <<Res1, Res5, Res60, Res120, ResD>>

IsKeyResolution(nres) == \E i \in 1..Len(KeyResolutions) : KeyResolutions[i] = nres

\* getAllSMA(symbol, resolution), lines 1040-1096: for a key resolution the SMA
\* columns of the latest row of the view, null or not; otherwise, and when the
\* view has no row, the latest row whose three columns are all non-null
getAllSMA(d, symbol, resolution) ==
  LET nres == normalizeResolution(resolution)
      rows == Part(d, symbol, nres)
  IN  IF IsKeyResolution(nres) /\ Len(rows) > 0
        THEN SmaTriple(rows[Len(rows)])
        ELSE LET i == LastIndex(rows, 0, 1, Len(rows))
             IN  IF i = 0 THEN NoSMA ELSE SmaTriple(rows[i])

\* getAllTimeframeSMAs(symbol), lines 1099-1108 (the later of the two methods of
\* that name, which is the one the class keeps)
getAllTimeframeSMAs(d, symbol) ==
  [i \in 1..Len(KeyResolutions) |-> getAllSMA(d, symbol, KeyResolutions[i])]

\* a variant of _calculateSMA whose slice is one close short
_calculateSMAShortSlice(candles, period) ==
  LET closes == [i \in 1..Len(candles) |-> candles[i].c]
  IN  [i \in 1..(Len(closes) - period + 1) |->
         (SumSeq(SubSeq(closes, i, i + period - 2)) * SmaScale) \div period]

\* _calculateSMA(candles, period), lines 1175-1186
_calculateSMA(candles, period) ==
  LET closes == [i \in 1..Len(candles) |-> candles[i].c]
  IN  [i \in 1..(Len(closes) - period + 1) |->
         (SumSeq(SubSeq(closes, i, i + period - 1)) * SmaScale) \div period]

SetSmaColumn(row, period, v) ==
  CASE period = 20  -> [row EXCEPT !.sma20 = v]
    [] period = 50  -> [row EXCEPT !.sma50 = v]
    [] period = 200 -> [row EXCEPT !.sma200 = v]

\* UPDATE candles SET sma<period> = ? WHERE ... AND timestamp = ?, lines 1131-1135
UpdateSMA(rows, period, key, v) ==
  LET i == LowerBound(rows, key, 1, Len(rows) + 1)
  IN  IF i <= Len(rows) /\ rows[i].timestamp = key
        THEN [rows EXCEPT ![i] = SetSmaColumn(rows[i], period, Some(v))]
        ELSE rows

\* cacheSMA, lines 1142-1162: the loop over candles[period-1 ..], here lo..hi
RECURSIVE UpdateRange(_, _, _, _, _, _, _)
UpdateRange(rows, nres, period, candles, smaValues, lo, hi) ==
  IF lo > hi THEN rows
  ELSE IF lo = hi
    THEN UpdateSMA(rows, period, FormatTimestamp(nres, candles[lo].t),
                   smaValues[lo - (period - 1)])
  ELSE LET mid  == (lo + hi) \div 2
           left == UpdateRange(rows, nres, period, candles, smaValues, lo, mid)
       IN  IF Len(left) >= 0
             THEN UpdateRange(left, nres, period, candles, smaValues, mid + 1, hi)
             ELSE left

\* a variant of cacheSMA that stores the candles before it tests their number
cacheSMAStoreFirst(d, symbol, resolution, period, candles) ==
  LET nres   == normalizeResolution(resolution)
      stored == storeCandles(d, symbol, nres, candles)
  IN  IF period \notin SmaPeriods THEN d
      ELSE IF Len(candles) < period THEN stored
      ELSE SetPart(stored, symbol, nres,
                   UpdateRange(Part(stored, symbol, nres), nres, period, candles,
                               _calculateSMA(candles, period), period, Len(candles)))

\* cacheSMA(symbol, resolution, period, candles), lines 1110-1173
cacheSMA(d, symbol, resolution, period, candles) ==
  LET nres == normalizeResolution(resolution)
  IN  IF period \notin SmaPeriods THEN d
      ELSE IF Len(candles) < period THEN d
      ELSE LET smaValues == _calculateSMA(candles, period)
               stored    == storeCandles(d, symbol, nres, candles)
           IN  SetPart(stored, symbol, nres,
                       UpdateRange(Part(stored, symbol, nres), nres, period, candles,
                                   smaValues, period, Len(candles)))

\* strategy.js lines 230-232 and 354-356: the three calls the engine makes in a row
cacheAllSMA(d, symbol, resolution, candles) ==
  LET d20 == cacheSMA(d, symbol, resolution, 20, candles)
      d50 == cacheSMA(d20, symbol, resolution, 50, candles)
  IN  cacheSMA(d50, symbol, resolution, 200, candles)

(***************************************************************************)
(* Candle data of the environment (what the broker serves)                 *)
(***************************************************************************)
\* the first "today" of the model: Friday 2025-01-03, so that the days before
\* it cross a month, a year and an ISO-week-year boundary
StartDay == DaysFromCivil(2025, 1, 3)

\* the minute of the day a daily candle is stamped with (05:30 local)
DailyStamp == 5 * 60 + 30

\* the minute of the day the clock of the model shows (15:30 local)
NowMinute == 15 * 60 + 30

BasePrice == 1000

\* the candle that is `age` steps old.  In an "up" series the close rises by one
\* per step towards the newest candle, in a "down" series it falls by one; every
\* candle closes one above its open and has the range high - low = 5.
GenCandle(ts, age, trend, vol) ==
  LET c == IF trend = "up" THEN BasePrice - age ELSE BasePrice + age
  IN  Candle(ts, c - 1, c + 2, c - 3, c, vol)

\* n candles, step minutes apart, the newest stamped lastTs, in ascending order
GenCandles(step, lastTs, n, trend, vol) ==
  [i \in 1..n |-> GenCandle(lastTs - (n - i) * step, n - i, trend, vol)]

HighVolume == 15000

LowVolume == 5000

\* the number of candles of a response that is long enough for every SMA period
FullLen == 201

\* the number of candles of a response that is long enough for SMA20 alone
ShortLen == 25

(***************************************************************************)
(* State                                                                   *)
(***************************************************************************)
VARIABLES
  norm,          \* a normalisation under test: its input and its results
  roll,          \* a rollup under test: its input and its result
  db,            \* the table `candles` of the candle store
  dbLast,        \* the last call made on the candle store
  dbCalls,       \* the number of calls made on the candle store
  dbResult,      \* the outcome of the last query made on the candle store
  storage,       \* whether the statements of the candle store succeed
  acd,           \* the call of analyzeCurrentData, if one is made
  smaRes,        \* Strategy.smaRes: the engine-wide resolution
  dailyMap,      \* Strategy.dailyMap: symbol -> daily candles
  smaMap,        \* Strategy.smaMap: symbol -> {sma20, sma50, sma200}
  state,         \* Strategy.state: symbol -> verdict
  resolutionSMA, \* Strategy.resolution1mSMA .. resolutionDSMA, by key resolution
  lastFetch,     \* Strategy.lastFetch: tag -> date
  emitted,       \* the events emitted so far, oldest first
  tasks,         \* the calls of tick in progress
  today,         \* the calendar day of the clock
  broker,        \* what the broker serves
  lastCall,      \* the last call of setResolution and how it ended
  fetch,         \* one call of TradingService._fetch and the calls it makes
  limiter,       \* the RateLimiter and the callers of wait()
  svc            \* the TradingService and the calls of getHistoricalData

normVars == <<norm, roll>>

dbVars == <<db, dbLast, dbCalls, dbResult>>

engVars == <<smaRes, dailyMap, smaMap, state, resolutionSMA, lastFetch, emitted,
             tasks, today, broker, lastCall, storage, acd>>

svcVars == <<fetch, limiter, svc>>

vars == <<normVars, dbVars, engVars, svcVars>>

Symbols == {"NSE:SBIN-EQ", "NSE:TCS-EQ"}

\* the symbol the ticks of the engine specifications are for
TickSymbols == {"NSE:SBIN-EQ"}

NoCall == [op |-> "none", input |-> <<>>, threw |-> FALSE, n |-> 0]

\* the engine as constructed (constructor, lines 36-59), with no call in progress
\* analyzeCurrentData has not been called
NoAcd == [pc |-> "idle", symbols |-> <<>>, i |-> 0, t |-> <<>>, results |-> <<>>,
          fresh |-> {}]

EngIdle ==
  /\ smaRes = Res60
  /\ dailyMap = [sym \in Symbols |-> Null]
  /\ smaMap = [sym \in Symbols |-> Null]
  /\ state = [sym \in Symbols |-> Null]
  /\ resolutionSMA = [i \in 1..Len(KeyResolutions) |-> [sym \in Symbols |-> Null]]
  /\ lastFetch = [tag \in {} |-> 0]
  /\ emitted = <<>>
  /\ tasks = <<>>
  /\ today = StartDay
  /\ broker = "none"
  /\ lastCall = NoCall
  /\ storage = "ok"
  /\ acd = NoAcd

NoDbCall ==
  [op |-> "none", resolution |-> <<>>, period |-> 0, candles |-> "none", repeated |-> FALSE]

DbIdle ==
  /\ db = EmptyDB
  /\ dbLast = NoDbCall
  /\ dbCalls = 0
  /\ dbResult = Null

\* no rollup is under test
NoRoll == [mode |-> "none", daily |-> <<>>, result |-> Null]

NormIdle ==
  /\ norm = [by |-> "none", input |-> <<>>, first |-> Null, second |-> Null]
  /\ roll = NoRoll

\* no call of _fetch, of wait() or of getHistoricalData is modelled
NoFetch == [pc |-> "unused"]

NoLimiter == [pc |-> "unused"]

NoService == [pc |-> "unused"]

ServiceIdle == fetch = NoFetch /\ limiter = NoLimiter /\ svc = NoService

(***************************************************************************)
(* Specification of the normalisation: every input string up to MaxResLen  *)
(* characters is normalised, and an accepted result is normalised again    *)
(***************************************************************************)
MaxResLen == 4

ResAlphabet == {"0", "1", "2", "4", "5", "M", "H", "D", "W", "h", " "}

RECURSIVE StringsOfLen(_)
StringsOfLen(n) ==
  IF n = 0 THEN {<<>>}
  ELSE {Append(str, ch) : str \in StringsOfLen(n - 1), ch \in ResAlphabet}

ResStrings == UNION {StringsOfLen(n) : n \in 0..MaxResLen}

NormInit ==
  /\ norm \in {[by |-> b, input |-> str, first |-> Null, second |-> Null] :
                 b \in {"setResolution", "getHistoricalData"}, str \in ResStrings}
  /\ roll = NoRoll
  /\ DbIdle
  /\ EngIdle
  /\ ServiceIdle

NormalizeBy(by, str) ==
  IF by = "setResolution" THEN Normalize(str) ELSE FetcherNormalize(str)

\* setResolution(input): its normalisation, lines 110-116
SetResolutionNormalize ==
  /\ norm.by = "setResolution"
  /\ norm.first = Null
  /\ norm' = [norm EXCEPT !.first = Some(Normalize(norm.input))]
  /\ UNCHANGED <<roll, dbVars, engVars, svcVars>>

\* getHistoricalData(symbol, input, ...): its normalisation, lines 199-206
GetHistoricalDataNormalize ==
  /\ norm.by = "getHistoricalData"
  /\ norm.first = Null
  /\ norm' = [norm EXCEPT !.first = Some(FetcherNormalize(norm.input))]
  /\ UNCHANGED <<roll, dbVars, engVars, svcVars>>

\* the accepted token is passed to the same normalisation again
NormalizeAgain ==
  /\ norm.first # Null
  /\ Val(norm.first).ok
  /\ norm.second = Null
  /\ norm' = [norm EXCEPT !.second = Some(NormalizeBy(norm.by, Val(norm.first).res))]
  /\ UNCHANGED <<roll, dbVars, engVars, svcVars>>

NormNext ==
  \/ SetResolutionNormalize
  \/ GetHistoricalDataNormalize
  \/ NormalizeAgain

SpecNorm == NormInit /\ [][NormNext]_vars

(***************************************************************************)
(* Claims about the normalisation                                          *)
(***************************************************************************)
Str240 == <<"2", "4", "0">>

Str120 == <<"1", "2", "0">>

\* C8: normalisation is idempotent: normalising an accepted token again gives
\* the same token; and "240" and "120" both give "120", "15M" gives "15", "2H"
\* gives "120".
C8_NormalizeIdempotent ==
  /\ norm.second # Null => Val(norm.second) = Val(norm.first)
  /\ norm.first # Null =>
       /\ norm.input \in {Str240, Str120} => Val(norm.first) = Accepted(Str120)
       /\ norm.input = <<"1", "5", "M">> => Val(norm.first) = Accepted(<<"1", "5">>)
       /\ norm.input = <<"2", "H">> => Val(norm.first) = Accepted(Str120)

\* the case of C8: an accepted token has been normalised a second time
C8_Witness ==
  /\ norm.second # Null
  /\ norm.input = <<"2", "H">>

(***************************************************************************)
(* Specification of the candle store: calls of storeCandles and cacheSMA   *)
(* on the table as the constructor finds it                                *)
(***************************************************************************)
MaxDbCalls == 2

DbSymbol == "NSE:SBIN-EQ"

\* the stamp of the daily candle of the first day of the model
DailyNow == StartDay * MinutesPerDay + DailyStamp

\* the stamp of the hourly candle that is open at the time of the model
HourlyNow == StartDay * MinutesPerDay + 15 * 60 + 15

\* the arrays of candles the store is called with
CandlesOf(name) ==
  CASE name = "daily"  -> GenCandles(MinutesPerDay, DailyNow, FullLen, "up", HighVolume)
    [] name = "sparse" -> GenCandles(2 * MinutesPerDay, DailyNow, FullLen, "down", LowVolume)
    [] name = "short"  -> GenCandles(MinutesPerDay, DailyNow, ShortLen, "down", HighVolume)
    [] name = "today"  -> <<Candle(DailyNow, BasePrice - 1, BasePrice + 9, BasePrice - 3,
                                   BasePrice + 7, HighVolume)>>
    [] name = "hourly" -> GenCandles(60, HourlyNow, FullLen, "up", LowVolume)

DbCall(resolution, name) == [resolution |-> resolution, candles |-> name]

\* "D" with an array of hourly candles is the call ensureSMA makes when the
\* resolution changes from 60 to D while it awaits the candles (strategy.js
\* lines 226-232 read this.smaRes again after the await)
StoreInputs ==
  {DbCall(ResD, "daily"), DbCall(ResD, "sparse"), DbCall(ResD, "today"),
   DbCall(ResD, "hourly"), DbCall(<<"1", "H">>, "hourly")}

CacheInputs == {DbCall(ResD, "short"), DbCall(ResD, "hourly")}

CachePeriods == {10, 20, 200}

CacheAllInputs ==
  {DbCall(ResD, "daily"), DbCall(ResD, "sparse"), DbCall(<<"1", "H">>, "hourly")}

DbCallRecord(op, in, period) ==
  [op |-> op, resolution |-> in.resolution, period |-> period, candles |-> in.candles,
   repeated |-> /\ dbLast.op = op
                /\ dbLast.resolution = in.resolution
                /\ dbLast.period = period
                /\ dbLast.candles = in.candles]

\* the table is empty, or holds the daily candles a previous run has stored
DbInit ==
  /\ db \in {EmptyDB, storeCandles(EmptyDB, DbSymbol, ResD, CandlesOf("daily"))}
  /\ dbLast = NoDbCall
  /\ dbCalls = 0
  /\ dbResult = Null
  /\ NormIdle
  /\ ServiceIdle
  /\ EngIdle

StoreCandles ==
  /\ dbCalls < MaxDbCalls
  /\ \E in \in StoreInputs :
       /\ db' = storeCandles(db, DbSymbol, in.resolution, CandlesOf(in.candles))
       /\ dbLast' = DbCallRecord("storeCandles", in, 0)
  /\ dbCalls' = dbCalls + 1
  /\ UNCHANGED <<normVars, dbResult, engVars, svcVars>>

CacheSMA ==
  /\ dbCalls < MaxDbCalls
  /\ \E in \in CacheInputs, period \in CachePeriods :
       /\ db' = cacheSMA(db, DbSymbol, in.resolution, period, CandlesOf(in.candles))
       /\ dbLast' = DbCallRecord("cacheSMA", in, period)
  /\ dbCalls' = dbCalls + 1
  /\ UNCHANGED <<normVars, dbResult, engVars, svcVars>>

\* cacheSMA for 20, 50 and 200 in a row, as strategy.js calls it
CacheAllSMA ==
  /\ dbCalls < MaxDbCalls
  /\ \E in \in CacheAllInputs :
       /\ db' = cacheAllSMA(db, DbSymbol, in.resolution, CandlesOf(in.candles))
       /\ dbLast' = DbCallRecord("cacheAllSMA", in, 0)
  /\ dbCalls' = dbCalls + 1
  /\ UNCHANGED <<normVars, dbResult, engVars, svcVars>>

DbNext ==
  \/ StoreCandles
  \/ CacheSMA
  \/ CacheAllSMA

SpecDB == DbInit /\ [][DbNext]_vars

(***************************************************************************)
(* Claims about the candle store                                           *)
(***************************************************************************)
\* the partition the last call wrote to, and the array it was called with
LastPart == Part(db, DbSymbol, normalizeResolution(dbLast.resolution))

LastCandles == CandlesOf(dbLast.candles)

LastKey(i) == FormatTimestamp(normalizeResolution(dbLast.resolution), LastCandles[i].t)

\* no two rows of a partition have the same key: the keys ascend strictly
NoDuplicates(d) ==
  \A pk \in DOMAIN d : \A i \in 1..(Len(d[pk]) - 1) :
    d[pk][i].timestamp < d[pk][i + 1].timestamp

\* C5: storeCandles is idempotent: a call of storeCandles that repeats the call
\* before it, with the same symbol, resolution and array, leaves every partition
\* as the first call left it, the same rows with the same SMA columns, and no
\* key twice.
C5_StoreCandlesIdempotent ==
  [][(dbLast'.op = "storeCandles" /\ dbLast'.repeated /\ dbCalls' = dbCalls + 1)
       => (db' = db /\ NoDuplicates(db'))]_vars

\* the case of C5: the same array of more than 200 candles was stored twice
C5_Witness ==
  /\ dbLast.op = "storeCandles"
  /\ dbLast.repeated
  /\ dbCalls = 2
  /\ Len(LastPart) >= FullLen
  /\ LastPart[Len(LastPart)].sma200 # Null

\* the row of the last partition for a key, as a set: empty if there is none
RowsAt(key) == {i \in 1..Len(LastPart) : LastPart[i].timestamp = key}

\* the mean of the closes of c[i-p+1 .. i], times SmaScale
WindowMean(c, i, p) ==
  (SumSeq([j \in 1..p |-> c[i - p + j].c]) * SmaScale) \div p

\* the column `period` of the row stored for every candle from the period-th on
\* is the sliding-window mean over the array
ColumnsMatchWindows ==
  \A period \in SmaPeriods : \A i \in period..Len(LastCandles) :
    \A r \in RowsAt(LastKey(i)) :
      SmaColumn(LastPart[r], period) = Some(WindowMean(LastCandles, i, period))

\* the candles of the array have keys of their own, in ascending order
DistinctKeys ==
  \A i \in 1..(Len(LastCandles) - 1) : LastKey(i) < LastKey(i + 1)

\* the partition holds no row between the first and the last key of the array
\* but the rows of the array
NoRowBetween ==
  Cardinality({i \in 1..Len(LastPart) :
                 /\ LastKey(1) <= LastPart[i].timestamp
                 /\ LastPart[i].timestamp <= LastKey(Len(LastCandles))})
    = Len(LastCandles)

\* C6 as stated: after cacheSMA for 20, 50 and 200 with an ascending array, the
\* column p of the row of the i-th candle, i >= p, is the mean of the closes of
\* the p candles of the array that end with the i-th.
C6_CacheSMAMatchesWindow ==
  dbLast.op = "cacheAllSMA" => ColumnsMatchWindows

\* C6, amended: the same, provided that the candles of the array have distinct
\* keys under the resolution and that the partition holds no other row between
\* the first and the last of them.
C6_CacheSMAMatchesWindowAlone ==
  (dbLast.op = "cacheAllSMA" /\ DistinctKeys /\ NoRowBetween) => ColumnsMatchWindows

\* the case of C6: the three periods were cached for an array of more than 200
\* candles, into a partition that held rows before
C6_Witness ==
  /\ dbLast.op = "cacheAllSMA"
  /\ DistinctKeys
  /\ NoRowBetween
  /\ dbCalls = 2
  /\ Len(LastCandles) >= 200
  /\ Len(LastPart) > Len(LastCandles)
  /\ LastPart[Len(LastPart)].sma200 # Null
  /\ LastPart[Len(LastPart)].sma20 # Null

\* C7: in every state of the store, a row has a non-null column for period N
\* only if it is at least the N-th row of its partition: with fewer candles up
\* to and including the row, the column is null.
C7_SmaOnlyWithEnoughCandles ==
  \A pk \in DOMAIN db : \A i \in 1..Len(db[pk]) : \A period \in SmaPeriods :
    SmaColumn(db[pk][i], period) # Null => i >= period

(***************************************************************************)
(* The strategy engine (Strategy, strategy.js)                             *)
(*                                                                         *)
(* The code between two suspensions of an async function runs without      *)
(* interruption.  The functions below take the memory of the engine and    *)
(* the candle store as a record m, run a call of tick from one point to    *)
(* its next suspension (the await of getHistoricalData) or to its end, and *)
(* give the memory and the call's record as they are then.                 *)
(***************************************************************************)
Abs(x) == IF x < 0 THEN 0 - x ELSE x

\* `${symbol}_${token}`, the keys of lastFetch
Tag(symbol, token) == <<symbol, token>>

AllTimeframes == <<"allTimeframes">>

\* Map.prototype.set
MapPut(f, k, v) == [x \in (DOMAIN f) \cup {k} |-> IF x = k THEN v ELSE f[x]]

\* this.lastFetch.get(tag) === today
FetchedToday(m, tag, day) == tag \in DOMAIN m.lastFetch /\ m.lastFetch[tag] = day

\* the number a relational comparison converts a nullable number to: null is 0
Num(x) == IF x = Null THEN 0 ELSE Val(x)

\* a > b of two nullable numbers
JsGT(a, b) == Num(a) > Num(b)

\* sma.sma20 > sma.sma50 && sma.sma50 > sma.sma200
Stacked(sma) == JsGT(sma.sma20, sma.sma50) /\ JsGT(sma.sma50, sma.sma200)

\* sma.sma20 !== null && sma.sma50 !== null && sma.sma200 !== null
AllAvailable(sma) == sma.sma20 # Null /\ sma.sma50 # Null /\ sma.sma200 # Null

\* sma?.value as a condition: neither null nor 0
Truthy(x) == x # Null /\ Val(x) # 0

\* rollup, lines 19-22: the key of the group of a candle
RollupKey(cndl, mode) ==
  IF mode = "W" THEN <<IsoWeek(DayOf(cndl.t)), Year(DayOf(cndl.t))>>
                ELSE <<Year(DayOf(cndl.t)), MonthOf(DayOf(cndl.t))>>

\* a variant of the body of daily.forEach that keeps the close of the group's
\* first candle
RollupMergeKeepClose(groups, cndl, k) ==
  IF \A i \in 1..Len(groups) : groups[i].k # k
    THEN Append(groups, [k |-> k, c |-> cndl])
    ELSE [i \in 1..Len(groups) |->
            IF groups[i].k # k THEN groups[i]
            ELSE [k |-> k,
                  c |-> [groups[i].c EXCEPT !.h = Max2(@, cndl.h),
                                            !.l = Min2(@, cndl.l),
                                            !.v = @ + cndl.v]]]

\* rollup, lines 19-30: the body of daily.forEach; groups is the Map in
\* insertion order
RollupMerge(groups, cndl, k) ==
  IF \A i \in 1..Len(groups) : groups[i].k # k
    THEN Append(groups, [k |-> k, c |-> cndl])
    ELSE [i \in 1..Len(groups) |->
            IF groups[i].k # k THEN groups[i]
            ELSE [k |-> k,
                  c |-> [groups[i].c EXCEPT !.h = Max2(@, cndl.h),
                                            !.l = Min2(@, cndl.l),
                                            !.c = cndl.c,
                                            !.v = @ + cndl.v]]]

RollupStep(groups, cndl, mode) == RollupMerge(groups, cndl, RollupKey(cndl, mode))

RECURSIVE RollupRange(_, _, _, _, _)
RollupRange(groups, daily, mode, lo, hi) ==
  IF lo > hi THEN groups
  ELSE IF lo = hi THEN RollupStep(groups, daily[lo], mode)
  ELSE LET mid  == (lo + hi) \div 2
           left == RollupRange(groups, daily, mode, lo, mid)
       IN  IF Len(left) >= 0 THEN RollupRange(left, daily, mode, mid + 1, hi) ELSE left

\* Array.prototype.sort((a, b) => a[T] - b[T]), which is stable
SortByT(arr) ==
  LET rank == [i \in 1..Len(arr) |->
                 Cardinality({j \in 1..Len(arr) :
                                \/ arr[j].t < arr[i].t
                                \/ arr[j].t = arr[i].t /\ j < i}) + 1]
  IN  [r \in 1..Len(arr) |-> arr[CHOOSE i \in 1..Len(arr) : rank[i] = r]]

\* rollup(daily, mode), lines 16-32
\* Array.from(map.values()), line 31
MapValues(groups) == [i \in 1..Len(groups) |-> groups[i].c]

rollup(daily, mode) ==
  SortByT(MapValues(RollupRange(<<>>, daily, mode, 1, Len(daily))))

\* #makeKey(sym), line 62
makeKey(m, symbol) == <<symbol, m.smaRes>>

\* a variant of diff that emits on the level of the flag, not on its edge
diffLevel(m, symbol, next) ==
  LET m1   == [m EXCEPT !.state[symbol] = Some(next)]
      key  == makeKey(m, symbol)
  IN  IF next.bullish
        THEN [m1 EXCEPT !.emitted = Append(@, [type |-> "bullish", key |-> key])]
        ELSE [m1 EXCEPT !.emitted = Append(@, [type |-> "clear", key |-> key])]

\* #diff(symbol, next), lines 541-597
diff(m, symbol, next) ==
  LET prev == m.state[symbol]
      was  == prev # Null /\ Val(prev).bullish
      m1   == [m EXCEPT !.state[symbol] = Some(next)]
      key  == makeKey(m, symbol)
      m2   == IF next.bullish /\ ~was
                THEN [m1 EXCEPT !.emitted = Append(@, [type |-> "bullish", key |-> key])]
                ELSE m1
  IN  IF ~next.bullish /\ was
        THEN [m2 EXCEPT !.emitted = Append(@, [type |-> "clear", key |-> key])]
        ELSE m2

\* a variant of NotEnoughData that asks for the 8 candles the conditions read
NotEnoughDataEight(m, symbol) ==
  \/ m.dailyMap[symbol] = Null
  \/ Len(Val(m.dailyMap[symbol])) < 8
  \/ m.smaMap[symbol] = Null

\* #analyze, line 391: !daily || daily.length < 10 || !smaBuf
NotEnoughData(m, symbol) ==
  \/ m.dailyMap[symbol] = Null
  \/ Len(Val(m.dailyMap[symbol])) < 10
  \/ m.smaMap[symbol] = Null

\* the volume the previous day's volume has to exceed, line 428
MinVolume == 10000

\* #analyze, lines 431-436: the last candle of a rollup closed above its open
LastCandleUp(candles) ==
  /\ Len(candles) > 0
  /\ candles[Len(candles)].c > candles[Len(candles)].o

\* #analyze, lines 398-436 and 466-469: the seven conditions on the daily
\* candles and on the SMA snapshot
Conditions(m, symbol, isPriority) ==
  LET daily  == Val(m.dailyMap[symbol])
      smaBuf == Val(m.smaMap[symbol])
      n      == Len(daily)
  IN  [symbol |-> symbol, bullish |-> FALSE,
       rangeOK |-> \A i \in 1..7 :
                     daily[n].h - daily[n].l > daily[n - i].h - daily[n - i].l,
       closeGTopen |-> daily[n].c > daily[n].o,
       closeGTyest |-> daily[n].c > daily[n - 1].c,
       volYestOK |-> daily[n - 1].v > MinVolume,
       wkBull |-> LastCandleUp(rollup(daily, "W")),
       moBull |-> LastCandleUp(rollup(daily, "M")),
       smaOK |-> Stacked(smaBuf), s20 |-> smaBuf.sma20, s50 |-> smaBuf.sma50,
       s200 |-> smaBuf.sma200, ma20_gt_ma200 |-> JsGT(smaBuf.sma20, smaBuf.sma200),
       isPriorityCheck |-> isPriority]

\* #analyze, lines 440-479: the 1-minute and 5-minute snapshots count only
\* when both are present
ShortTimeframesBullish(sma1m, sma5m) ==
  IF sma1m # Null /\ sma5m # Null
    THEN Stacked(Val(sma1m)) \/ Stacked(Val(sma5m))
    ELSE TRUE

\* #analyze, lines 482-485
Bullish(c, shortTimeframesBullish) ==
  /\ c.rangeOK /\ c.closeGTopen /\ c.closeGTyest
  /\ c.volYestOK /\ c.wkBull /\ c.moBull /\ c.smaOK
  /\ shortTimeframesBullish

\* #analyze, lines 520-535: the object passed to #diff
VerdictObject(c, shortTimeframesBullish) ==
  [c EXCEPT !.bullish = Bullish(c, shortTimeframesBullish)]

\* #analyze, lines 398-535: the verdict on a symbol with enough data
Verdict(m, symbol, isPriority) ==
  VerdictObject(Conditions(m, symbol, isPriority),
        ShortTimeframesBullish(m.resolutionSMA[1][symbol], m.resolutionSMA[2][symbol]))

\* #analyze(symbol, isPriority), lines 388-538
analyze(m, symbol, isPriority) ==
  IF NotEnoughData(m, symbol) THEN m
  ELSE diff(m, symbol, Verdict(m, symbol, isPriority))

(***************************************************************************)
(* What the broker serves.  A scenario fixes, for every resolution, how    *)
(* many candles getHistoricalData returns and how the closes move.         *)
(***************************************************************************)
Scenarios ==
  {"bull", "shortDown", "bear", "thin", "new", "no120", "outage", "short"}

\* the number of daily candles of a symbol listed 8 days ago
TinyLen == 8

NowTs == StartDay * MinutesPerDay + NowMinute

\* the minutes one candle of a resolution spans
StepOf(res) == IF res = ResD THEN MinutesPerDay ELSE ParseInt(res, 0)

\* the number of candles of a response that is long enough for SMA20 and SMA50
MidLen == 60

\* the broker has a long history of 60-minute candles only
ServeLen(scn, res) ==
  CASE scn = "outage" -> 0
    [] scn = "short"  -> ShortLen
    [] scn = "new"    -> IF res = ResD THEN TinyLen
                         ELSE IF res = Res60 THEN FullLen ELSE MidLen
    [] scn = "no120"  -> IF res = Res120 THEN 0
                         ELSE IF res = Res60 THEN FullLen ELSE MidLen
    [] OTHER          -> IF res = Res60 THEN FullLen ELSE MidLen

ServeTrend(scn, res) ==
  CASE scn = "bear"      -> "down"
    [] scn = "shortDown" -> IF res \in {Res1, Res5} THEN "down" ELSE "up"
    [] OTHER             -> "up"

ServeVolume(scn) == IF scn = "thin" THEN LowVolume ELSE HighVolume

\* the stamp of the newest daily candle of the broker: in scenario "stale" the
\* day has no candle yet and the newest is the candle of the day before
ServeDailyLast(scn) ==
  IF scn = "stale" THEN (today - 1) * MinutesPerDay + DailyStamp
                   ELSE today * MinutesPerDay + DailyStamp

\* the daily candles of the broker
ServeDaily(scn) ==
  GenCandles(MinutesPerDay, ServeDailyLast(scn), ServeLen(scn, ResD),
             ServeTrend(scn, ResD), ServeVolume(scn))

\* the time of the request, on the day of the engine
ServeNow == today * MinutesPerDay + NowMinute

\* the candles of a resolution of step minutes
ServeIntraday(scn, res, step) ==
  IF step = 0 THEN <<>>
  ELSE GenCandles(step, ServeNow - (ServeNow % step), ServeLen(scn, res),
                  ServeTrend(scn, res), ServeVolume(scn))

\* the answer to a request the fetcher has normalised
ServeRequest(scn, req) ==
  IF ~req.ok THEN <<>>
  ELSE IF req.res \in {ResW, ResM} THEN rollup(ServeDaily(scn), req.res[1])
  ELSE IF req.res = ResD THEN ServeDaily(scn)
  ELSE ServeIntraday(scn, req.res, StepOf(req.res))

\* the candles of getHistoricalData(symbol, resolution, lookback): the request
\* is normalised as the fetcher does (tradingService.js lines 199-206), so a
\* request for 240 is answered with candles of 120 minutes; weekly and monthly
\* candles are rolled up from the daily ones (lines 209-213)
Serve(scn, resolution) == ServeRequest(scn, FetcherNormalize(resolution))

(***************************************************************************)
(* tick and the history loaders                                            *)
(***************************************************************************)
\* the record of a call tick(symbol, ltp): the step it is at or waits in (pc)
\* and the locals it keeps over an await: today (day), tag and the resolution
\* requested (req) of #ensureSMA, the index of the loop of
\* #ensureAllTimeframeSMAs (tf)
NewTask(symbol, ltp) ==
  [symbol |-> symbol, ltp |-> ltp, pc |-> "ensureDaily", day |-> 0,
   tag |-> <<>>, req |-> <<>>, tf |-> 0]

\* the engine m and the call t, which goes on at pc
Goto(m, t, pc) == [m |-> m, t |-> [t EXCEPT !.pc = pc]]

\* tick, lines 134-145: after the two loaders
FinishUpdate(m, t, daily, upd) ==
  Goto(analyze([m EXCEPT !.dailyMap[t.symbol] = Some([daily EXCEPT ![Len(daily)] = upd]),
                         !.db = storeCandles(m.db, t.symbol, ResD, <<upd>>)],
               t.symbol,
               \* Math.abs((ltp - prevC) / prevC * 100) >= 0.5
               Abs(t.ltp - daily[Len(daily)].c) * 200 >= daily[Len(daily)].c),
       NewTask(t.symbol, t.ltp), "done")

\* a variant of FinishWith that sets the close and leaves the high and the low
FinishWithCloseOnly(m, t, daily) ==
  IF Len(daily) = 0
    THEN Goto(m, NewTask(t.symbol, t.ltp), "threw")
    ELSE FinishUpdate(m, t, daily, [daily[Len(daily)] EXCEPT !.c = t.ltp])

FinishWith(m, t, daily) ==
  IF Len(daily) = 0
    THEN \* daily.at(-1) is undefined: tdy[C] throws a TypeError
         Goto(m, NewTask(t.symbol, t.ltp), "threw")
    ELSE FinishUpdate(m, t, daily,
                      [daily[Len(daily)] EXCEPT !.c = t.ltp,
                                                !.h = Max2(@, t.ltp),
                                                !.l = Min2(@, t.ltp)])

FinishTick(m, t) == FinishWith(m, t, Val(m.dailyMap[t.symbol]))

\* #ensureAllTimeframeSMAs, lines 308-352: one round of the loop, at index
\* t.tf, with the SMAs the store has for the resolution
TimeframeStep(m, t, res, smaValues) ==
  IF FetchedToday(m, Tag(t.symbol, res), t.day) /\ m.resolutionSMA[t.tf][t.symbol] # Null
    THEN Goto(m, [t EXCEPT !.tf = @ + 1], "timeframeLoop")
  ELSE IF AllAvailable(smaValues)
    THEN Goto([m EXCEPT !.resolutionSMA[t.tf][t.symbol] = Some(smaValues),
                        !.lastFetch = MapPut(@, Tag(t.symbol, res), t.day)],
              [t EXCEPT !.tf = @ + 1], "timeframeLoop")
  ELSE Goto(m, t, "tfFetch")

\* #ensureAllTimeframeSMAs, lines 308-385: the loop from index t.tf on, and
\* what follows the loop
RECURSIVE TimeframeLoop(_)
TimeframeLoop(s) ==
  IF s.t.pc # "timeframeLoop" THEN s
  ELSE IF s.t.tf > Len(KeyResolutions)
    THEN IF \A j \in 1..Len(KeyResolutions) : s.m.resolutionSMA[j][s.t.symbol] # Null
           THEN Goto([s.m EXCEPT !.lastFetch =
                                   MapPut(@, Tag(s.t.symbol, AllTimeframes), s.t.day)],
                     s.t, "finish")
           ELSE Goto(s.m, s.t, "finish")
    ELSE TimeframeLoop(TimeframeStep(s.m, s.t, KeyResolutions[s.t.tf],
                                     getAllSMA(s.m.db, s.t.symbol, KeyResolutions[s.t.tf])))

\* #ensureAllTimeframeSMAs, lines 354-373: after the await of getHistoricalData
AfterTimeframeStore(m, t, res, candles, d) ==
  Goto([m EXCEPT !.db = IF Len(candles) > 0 THEN d ELSE @,
                 !.resolutionSMA[t.tf][t.symbol] =
                    IF Len(candles) > 0 THEN Some(getAllSMA(d, t.symbol, res)) ELSE @,
                 !.lastFetch = MapPut(@, Tag(t.symbol, res), t.day)],
       [t EXCEPT !.tf = @ + 1], "timeframeLoop")

AfterTimeframeFetch(m, t, candles) ==
  AfterTimeframeStore(m, t, KeyResolutions[t.tf], candles,
                      cacheAllSMA(m.db, t.symbol, KeyResolutions[t.tf], candles))

\* #ensureAllTimeframeSMAs, lines 254-306, with the SMAs the store has
AllTimeframesWith(m, t, tag, all) ==
  IF /\ FetchedToday(m, tag, t.day)
     /\ \A j \in 1..Len(KeyResolutions) : m.resolutionSMA[j][t.symbol] # Null
    THEN Goto(m, t, "finish")
  ELSE IF \A j \in 1..Len(KeyResolutions) : AllAvailable(all[j])
    THEN Goto([m EXCEPT !.resolutionSMA =
                          [j \in 1..Len(KeyResolutions) |->
                             [m.resolutionSMA[j] EXCEPT ![t.symbol] = Some(all[j])]],
                        !.lastFetch = MapPut(@, tag, t.day)], t, "finish")
  ELSE Goto(m, [t EXCEPT !.tf = 1], "timeframeLoop")

\* #ensureAllTimeframeSMAs(symbol), lines 254-306
ensureAllTimeframeSMAs(m, t) ==
  AllTimeframesWith(m, [t EXCEPT !.day = today], Tag(t.symbol, AllTimeframes),
                    getAllTimeframeSMAs(m.db, t.symbol))

\* #ensureSMA, lines 226-252: after the await of getHistoricalData.  The
\* candles were requested for the resolution of that time; the store is
\* written, and read back, under the resolution of now.
AfterSMAStore(m, t, candles, d) ==
  Goto([m EXCEPT !.db = IF Len(candles) > 0 THEN d ELSE @,
                 !.smaMap[t.symbol] =
                    IF Len(candles) > 0 THEN Some(getAllSMA(d, t.symbol, m.smaRes)) ELSE @,
                 !.lastFetch = MapPut(@, t.tag, t.day)],
       t, "ensureAllTimeframeSMAs")

AfterSMAFetch(m, t, candles) ==
  AfterSMAStore(m, t, candles, cacheAllSMA(m.db, t.symbol, m.smaRes, candles))

\* #ensureSMA, lines 166-224, with the SMAs the store has
SMAWith(m, t, allSMAs, sma20, sma50, sma200) ==
  IF FetchedToday(m, t.tag, t.day) /\ m.smaMap[t.symbol] # Null
    THEN Goto(m, t, "finish")
  ELSE IF AllAvailable(allSMAs)
    THEN Goto([m EXCEPT !.smaMap[t.symbol] = Some(allSMAs),
                        !.lastFetch = MapPut(@, t.tag, t.day)],
              t, "ensureAllTimeframeSMAs")
  ELSE IF Truthy(sma20) /\ Truthy(sma50) /\ Truthy(sma200)
    THEN Goto([m EXCEPT !.smaMap[t.symbol] =
                          Some([sma20 |-> sma20, sma50 |-> sma50, sma200 |-> sma200]),
                        !.lastFetch = MapPut(@, t.tag, t.day)],
              t, "ensureAllTimeframeSMAs")
  ELSE Goto(m, t, "smaFetch")

\* #ensureSMA(symbol), lines 166-224
ensureSMA(m, t) ==
  SMAWith(m, [t EXCEPT !.day = today, !.tag = Tag(t.symbol, m.smaRes), !.req = m.smaRes],
          getAllSMA(m.db, t.symbol, m.smaRes),
          getCachedSMA(m.db, t.symbol, m.smaRes, 20),
          getCachedSMA(m.db, t.symbol, m.smaRes, 50),
          getCachedSMA(m.db, t.symbol, m.smaRes, 200))

\* #ensureDaily, lines 159-163: after the await of getHistoricalData
AfterDailyFetch(m, t, api) ==
  Goto([m EXCEPT !.db = storeCandles(m.db, t.symbol, ResD, api),
                 !.dailyMap[t.symbol] = Some(api),
                 !.lastFetch = MapPut(@, Tag(t.symbol, ResD), t.day)],
       t, "ensureSMA")

\* the days of history #ensureDaily reads from the store, line 154
DailyWindowDays == 300

\* a variant of #ensureDaily that trusts the memory only while no other call
\* waits for the broker
DailyWithSerialized(m, t, candles) ==
  IF /\ FetchedToday(m, Tag(t.symbol, ResD), t.day)
     /\ m.dailyMap[t.symbol] # Null
     /\ \A id \in 1..Len(tasks) : tasks[id].pc \in {"done", "threw"}
    THEN Goto(m, t, "ensureSMA")
    ELSE Goto(m, t, "dailyFetch")

\* #ensureDaily, lines 149-158, with the candles the store has
DailyWith(m, t, candles) ==
  IF FetchedToday(m, Tag(t.symbol, ResD), t.day) /\ m.dailyMap[t.symbol] # Null
    THEN Goto(m, t, "ensureSMA")
  ELSE IF Len(candles) = 0 \/ DayOf(candles[Len(candles)].t) # t.day
    THEN Goto(m, t, "dailyFetch")
  ELSE Goto([m EXCEPT !.dailyMap[t.symbol] = Some(candles),
                      !.lastFetch = MapPut(@, Tag(t.symbol, ResD), t.day)],
            t, "ensureSMA")

\* #ensureDaily(symbol), lines 149-158
ensureDaily(m, t) ==
  DailyWith(m, [t EXCEPT !.day = today],
            getCandles(m.db, t.symbol, ResD,
                       today * MinutesPerDay + NowMinute - DailyWindowDays * MinutesPerDay,
                       today * MinutesPerDay + NowMinute))

\* tick, lines 130-146: the call s.t goes on from s.t.pc until it waits for a
\* history request or ends
AtEnsureDaily(s) == IF s.t.pc = "ensureDaily" THEN ensureDaily(s.m, s.t) ELSE s

AtEnsureSMA(s) == IF s.t.pc = "ensureSMA" THEN ensureSMA(s.m, s.t) ELSE s

AtEnsureAllTimeframeSMAs(s) ==
  IF s.t.pc = "ensureAllTimeframeSMAs" THEN ensureAllTimeframeSMAs(s.m, s.t) ELSE s

AtFinish(s) == IF s.t.pc = "finish" THEN FinishTick(s.m, s.t) ELSE s

tick(s) ==
  AtFinish(TimeframeLoop(AtEnsureAllTimeframeSMAs(AtEnsureSMA(AtEnsureDaily(s)))))

\* a variant of setResolution that installs the new resolution before it
\* validates it
setResolutionUnchecked(m, res) ==
  LET r == Normalize(res)
      n == Trim(ToUpperCase(res))
  IN  [m     |-> IF n # m.smaRes
                   THEN [m EXCEPT !.smaRes = n, !.smaMap = [sym \in Symbols |-> Null]]
                   ELSE m,
       threw |-> ~r.ok]

\* a variant of setResolution that keeps the SMA snapshots of the old
\* resolution
setResolutionKeepCache(m, res) ==
  LET r == Normalize(res)
  IN  IF ~r.ok THEN [m |-> m, threw |-> TRUE]
      ELSE [m |-> [m EXCEPT !.smaRes = r.res], threw |-> FALSE]

\* setResolution(res), lines 109-124
setResolution(m, res) ==
  LET r == Normalize(res)
  IN  IF ~r.ok THEN [m |-> m, threw |-> TRUE]
      ELSE IF r.res # m.smaRes
        THEN [m     |-> [m EXCEPT !.smaRes = r.res,
                                  !.smaMap = [sym \in Symbols |-> Null]],
              threw |-> FALSE]
      ELSE [m |-> m, threw |-> FALSE]

(***************************************************************************)
(* Specification of the engine: calls of tick and of setResolution, and    *)
(* the returns of the history requests the calls of tick wait for          *)
(***************************************************************************)
MaxTicks == 3

MaxInFlight == 1

MaxSetResolutions == 1

\* the last traded prices of the ticks: below and above every price of a served
\* candle's day
TickPrices == {BasePrice - 10, BasePrice + 10}

ResolutionInputs ==
  {<<"2", "4", "0">>, <<"4", "H">>, <<"1", "D">>, <<"6", "0">>, <<"a", "b", "c">>}

Mem ==
  [db |-> db, smaRes |-> smaRes, dailyMap |-> dailyMap, smaMap |-> smaMap,
   state |-> state, resolutionSMA |-> resolutionSMA, lastFetch |-> lastFetch,
   emitted |-> emitted]

Commit(m) ==
  /\ db' = m.db
  /\ smaRes' = m.smaRes
  /\ dailyMap' = m.dailyMap
  /\ smaMap' = m.smaMap
  /\ state' = m.state
  /\ resolutionSMA' = m.resolutionSMA
  /\ lastFetch' = m.lastFetch
  /\ emitted' = m.emitted

InFlight == {id \in 1..Len(tasks) : tasks[id].pc \notin {"done", "threw"}}

Init ==
  /\ db = EmptyDB
  /\ dbLast = NoDbCall
  /\ dbCalls = 0
  /\ dbResult = Null
  /\ NormIdle
  /\ ServiceIdle
  /\ smaRes = Res60
  /\ dailyMap = [sym \in Symbols |-> Null]
  /\ smaMap = [sym \in Symbols |-> Null]
  /\ state = [sym \in Symbols |-> Null]
  /\ resolutionSMA = [i \in 1..Len(KeyResolutions) |-> [sym \in Symbols |-> Null]]
  /\ lastFetch = [tag \in {} |-> 0]
  /\ emitted = <<>>
  /\ tasks = <<>>
  /\ today = StartDay
  /\ broker \in Scenarios
  /\ lastCall = NoCall
  /\ storage = "ok"
  /\ acd = NoAcd

\* a call tick(symbol, ltp), up to its first suspension
Tick ==
  /\ Len(tasks) < MaxTicks
  /\ Cardinality(InFlight) < MaxInFlight
  /\ \E symbol \in TickSymbols, ltp \in TickPrices :
       \E r \in {tick([m |-> Mem, t |-> NewTask(symbol, ltp)])} :
         Commit(r.m) /\ tasks' = Append(tasks, r.t)
  /\ UNCHANGED <<normVars, svcVars, dbLast, dbCalls, dbResult, storage, acd, today, broker, lastCall>>

\* the daily candles arrive: #ensureDaily and tick go on
DailyFetchReturn ==
  /\ \E id \in InFlight :
       /\ tasks[id].pc = "dailyFetch"
       /\ \E r \in {tick(AfterDailyFetch(Mem, tasks[id], Serve(broker, ResD)))} :
            Commit(r.m) /\ tasks' = [tasks EXCEPT ![id] = r.t]
  /\ UNCHANGED <<normVars, svcVars, dbLast, dbCalls, dbResult, storage, acd, today, broker, lastCall>>

\* the candles of the engine's resolution arrive: #ensureSMA and tick go on
SMAFetchReturn ==
  /\ \E id \in InFlight :
       /\ tasks[id].pc = "smaFetch"
       /\ \E r \in {tick(AfterSMAFetch(Mem, tasks[id], Serve(broker, tasks[id].req)))} :
            Commit(r.m) /\ tasks' = [tasks EXCEPT ![id] = r.t]
  /\ UNCHANGED <<normVars, svcVars, dbLast, dbCalls, dbResult, storage, acd, today, broker, lastCall>>

\* the candles of a key resolution arrive: #ensureAllTimeframeSMAs and tick go on
TimeframeFetchReturn ==
  /\ \E id \in InFlight :
       /\ tasks[id].pc = "tfFetch"
       /\ \E r \in {tick(AfterTimeframeFetch(Mem, tasks[id],
                                              Serve(broker, KeyResolutions[tasks[id].tf])))} :
            Commit(r.m) /\ tasks' = [tasks EXCEPT ![id] = r.t]
  /\ UNCHANGED <<normVars, svcVars, dbLast, dbCalls, dbResult, storage, acd, today, broker, lastCall>>

\* a call setResolution(res)
SetResolution ==
  /\ lastCall.n < MaxSetResolutions
  /\ \E res \in ResolutionInputs :
       \E r \in {setResolution(Mem, res)} :
           /\ Commit(r.m)
           /\ lastCall' = [op |-> "setResolution", input |-> res, threw |-> r.threw,
                           n |-> lastCall.n + 1]
  /\ UNCHANGED <<normVars, svcVars, dbLast, dbCalls, dbResult, storage, acd, tasks, today, broker>>

Next ==
  \/ Tick
  \/ DailyFetchReturn
  \/ SMAFetchReturn
  \/ TimeframeFetchReturn
  \/ SetResolution

Spec == Init /\ [][Next]_vars


(***************************************************************************)
(* Claims about the engine                                                 *)
(***************************************************************************)
\* a call of tick ends in this step: its analysis has run
TickFinishes ==
  \E id \in 1..Len(tasks') :
    /\ tasks'[id].pc = "done"
    /\ id > Len(tasks) \/ tasks[id].pc # "done"

AllTicksDone ==
  /\ Len(tasks) = MaxTicks
  /\ \A id \in 1..Len(tasks) : tasks[id].pc = "done"

IsBullish(verdict) == verdict # Null /\ Val(verdict).bullish

\* the types of the events of a symbol among the events from index from on
EventTypes(events, from, symbol) ==
  LET new  == SubSeq(events, from, Len(events))
      mine == SelectSeq(new, LAMBDA e : e.key[1] = symbol)
  IN  [i \in 1..Len(mine) |-> mine[i].type]

\* C1: in every step, for every symbol, the events emitted are one "bullish"
\* event when the verdict is bullish after the step and was not bullish, or
\* absent, before it, one "clear" event when the verdict is not bullish after
\* the step and was bullish before it, and no event when the flag is the same
\* before and after
C1_EdgeTriggered ==
  [][\A symbol \in Symbols :
       /\ Len(emitted') >= Len(emitted)
       /\ SubSeq(emitted', 1, Len(emitted)) = emitted
       /\ EventTypes(emitted', Len(emitted) + 1, symbol) =
            IF IsBullish(state'[symbol]) /\ ~IsBullish(state[symbol]) THEN <<"bullish">>
            ELSE IF ~IsBullish(state'[symbol]) /\ IsBullish(state[symbol]) THEN <<"clear">>
            ELSE <<>>]_vars

\* three analyses of a symbol, the second or the third with the flag of the
\* one before, have emitted one open and one clear
C1_Witness ==
  /\ AllTicksDone
  /\ \E symbol \in Symbols :
       /\ state[symbol] # Null /\ ~Val(state[symbol]).bullish
       /\ EventTypes(emitted, 1, symbol) = <<"bullish", "clear">>

\* C2: a stored verdict is bullish if and only if its seven conditions
\* rangeOK, closeGTopen, closeGTyest, volYestOK, wkBull, moBull and smaOK hold
C2_BullishIffSevenConditions ==
  \A symbol \in Symbols :
    state[symbol] # Null =>
      LET v == Val(state[symbol])
      IN  v.bullish <=> (/\ v.rangeOK /\ v.closeGTopen /\ v.closeGTyest
                         /\ v.volYestOK /\ v.wkBull /\ v.moBull /\ v.smaOK)

\* C3: a step that ends a call of tick for a symbol with fewer than 10 daily
\* candles loaded, or without an SMA snapshot in memory, leaves the verdicts
\* and the emitted events as they were
C3_NoOpWithoutData ==
  [][TickFinishes =>
       \A symbol \in TickSymbols :
         (\/ dailyMap'[symbol] = Null
          \/ Len(Val(dailyMap'[symbol])) < 10
          \/ smaMap'[symbol] = Null)
           => (state'[symbol] = state[symbol] /\ emitted' = emitted)]_vars

\* a tick of a symbol with 8 daily candles has ended and no verdict is stored
C3_Witness ==
  \E symbol \in Symbols, id \in 1..Len(tasks) :
    /\ tasks[id].pc = "done" /\ tasks[id].symbol = symbol
    /\ dailyMap[symbol] # Null /\ Len(Val(dailyMap[symbol])) = TinyLen
    /\ smaMap[symbol] # Null
    /\ state[symbol] = Null /\ emitted = <<>>

\* the daily candles and the SMA snapshot of a symbol are those of the claim:
\* 8 candles, the seven conditions hold, the three averages are present
EightCandleCase(symbol) ==
  /\ dailyMap[symbol] # Null /\ Len(Val(dailyMap[symbol])) = 8
  /\ smaMap[symbol] # Null
  /\ Val(smaMap[symbol]).sma20 # Null /\ Val(smaMap[symbol]).sma50 # Null
  /\ Val(smaMap[symbol]).sma200 # Null
  /\ Val(dailyMap[symbol])[7].v = HighVolume
  /\ \E c \in {Conditions(Mem, symbol, FALSE)} :
       /\ c.rangeOK /\ c.closeGTopen /\ c.closeGTyest
       /\ c.volYestOK /\ c.wkBull /\ c.moBull /\ c.smaOK

\* C4: after a tick of a symbol with exactly 8 daily candles that satisfy the
\* seven conditions, the stored verdict is bullish
C4_EightCandlesBullish ==
  \A symbol \in Symbols :
    (EightCandleCase(symbol) /\ \E id \in 1..Len(tasks) :
                                  tasks[id].pc = "done" /\ tasks[id].symbol = symbol)
      => IsBullish(state[symbol])

CanonicalTokens ==
  {<<"1">>, <<"5">>, <<"1", "5">>, <<"3", "0">>, <<"6", "0">>, <<"1", "2", "0">>,
   <<"D">>, <<"W">>, <<"M">>}

\* C9: the engine-wide resolution is one of the canonical tokens 1, 5, 15,
\* 30, 60, 120, D, W, M, and so never 240
C9_EngineResolutionCanonical == smaRes \in CanonicalTokens

\* C10: a call of setResolution with an input that fails normalisation throws
\* and leaves the resolution, the SMA snapshots, the verdicts, the fetch-date
\* markers and the emitted events as they were
C10_InvalidResolutionNoEffect ==
  [][(lastCall'.n = lastCall.n + 1 /\ ~Normalize(lastCall'.input).ok)
       => /\ lastCall'.threw
          /\ smaRes' = smaRes /\ smaMap' = smaMap /\ state' = state
          /\ lastFetch' = lastFetch /\ emitted' = emitted]_vars

\* a call with the input "abc" has thrown while the engine held an SMA
\* snapshot and a verdict
C10_Witness ==
  /\ lastCall.op = "setResolution" /\ lastCall.threw
  /\ lastCall.input = <<"a", "b", "c">>
  /\ \E symbol \in Symbols : smaMap[symbol] # Null /\ state[symbol] # Null

MaxOverlap == 2

OverlapScenarios == {"bull", "new"}

OverlapInit ==
  /\ db = EmptyDB
  /\ dbLast = NoDbCall
  /\ dbCalls = 0
  /\ dbResult = Null
  /\ NormIdle
  /\ ServiceIdle
  /\ smaRes = Res60
  /\ dailyMap = [sym \in Symbols |-> Null]
  /\ smaMap = [sym \in Symbols |-> Null]
  /\ state = [sym \in Symbols |-> Null]
  /\ resolutionSMA = [i \in 1..Len(KeyResolutions) |-> [sym \in Symbols |-> Null]]
  /\ lastFetch = [tag \in {} |-> 0]
  /\ emitted = <<>>
  /\ tasks = <<>>
  /\ today = StartDay
  /\ broker \in OverlapScenarios
  /\ lastCall = NoCall
  /\ storage = "ok"
  /\ acd = NoAcd

\* a call tick(symbol, ltp), whatever the calls in flight, up to its first
\* suspension
OverlappingTick ==
  /\ Len(tasks) < MaxOverlap
  /\ \E symbol \in TickSymbols, ltp \in TickPrices :
       \E r \in {tick([m |-> Mem, t |-> NewTask(symbol, ltp)])} :
         Commit(r.m) /\ tasks' = Append(tasks, r.t)
  /\ UNCHANGED <<normVars, svcVars, dbLast, dbCalls, dbResult, storage, acd, today, broker, lastCall>>

OverlapNext ==
  \/ OverlappingTick
  \/ DailyFetchReturn
  \/ SMAFetchReturn
  \/ TimeframeFetchReturn

SpecOverlap == OverlapInit /\ [][OverlapNext]_vars

\* the calls of tick for a symbol that wait for the answer to a history
\* request made at pc
Waiting(symbol, pc) ==
  {id \in 1..Len(tasks) : tasks[id].symbol = symbol /\ tasks[id].pc = pc}

\* C18: at no time do two calls of tick for one symbol wait for the daily
\* candles they each requested, or for the candles of the engine's
\* resolution they each requested
C18_NoDuplicateFetch ==
  \A symbol \in Symbols :
    /\ Cardinality(Waiting(symbol, "dailyFetch")) <= 1
    /\ Cardinality(Waiting(symbol, "smaFetch")) <= 1

\* C19: when the candles of an SMA fetch arrive that was requested for a
\* resolution the engine has left since, the step writes nothing to the
\* partition of the engine's resolution of now and leaves the SMA snapshots
\* in memory as they were
C19_StaleFetchSuperseded ==
  [][\A id \in 1..Len(tasks) :
       (/\ tasks[id].pc = "smaFetch" /\ tasks'[id].pc # "smaFetch"
        /\ tasks[id].req # smaRes)
         => /\ smaMap'[tasks[id].symbol] = smaMap[tasks[id].symbol]
            /\ smaRes # ResD =>
                 Part(db', tasks[id].symbol, normalizeResolution(smaRes)) =
                 Part(db, tasks[id].symbol, normalizeResolution(smaRes))]_vars

\* C20: no call of tick ends by throwing
C20_TickDoesNotRaise ==
  \A id \in 1..Len(tasks) : tasks[id].pc # "threw"

(***************************************************************************)
(* TradingService._fetch: retries and window expansion                     *)
(***************************************************************************)

\* a date 'YYYY-MM-DD' is the number of its day; moment.unix(ts).format
\* ('YYYY-MM-DD') keeps the day of a timestamp and drops the time of day
FormatDate(ts) == DayOf(ts)

\* moment(date, 'YYYY-MM-DD').unix(): the first minute of the day
ParseDate(day) == day * MinutesPerDay

maxDaysFor(resMin) ==
  IF resMin <= 15 THEN 30
  ELSE IF resMin <= 60 THEN 180
  ELSE IF resMin <= 120 THEN 180
  ELSE 365

\* the candles getHistoricalData asks _fetch for
WANT == 200

\* the minutes of one trading day, 6.5 * 60
dayMin == 390

CeilDiv(a, b) == (a + b - 1) \div b

\* backDays without the cap of maxDaysFor
backDaysUncapped(res) ==
  LET resMin == IF res = ResD THEN MinutesPerDay ELSE ParseInt(res, 0)
  IN  CeilDiv(WANT * resMin, dayMin) * 13

\* backDays of getHistoricalData, in tenths of a day
backDays(res) ==
  LET resMin == IF res = ResD THEN MinutesPerDay ELSE ParseInt(res, 0)
  IN  Min2(CeilDiv(WANT * resMin, dayMin) * 13, maxDaysFor(resMin) * 10)

\* moment().subtract(tenths / 10, "days"): moment rounds the number of days
\* to the nearest whole day
SubtractDays(ts, tenths) == ts - ((tenths + 5) \div 10) * MinutesPerDay

\* the parameters getHistoricalData hands to _fetch at the time now
InitialParams(res, now) ==
  [date_format |-> "1",
   range_from  |-> FormatDate(SubtractDays(now, backDays(res))),
   range_to    |-> FormatDate(now)]

\* resMin of _fetch: the number of a string of digits, null (0) otherwise
FetchResMin(resStr) == IF AllDigits(resStr) THEN ParseInt(resStr, 0) ELSE 0

isIntra(resStr) == FetchResMin(resStr) # 0

limitD(resStr) == IF isIntra(resStr) THEN maxDaysFor(FetchResMin(resStr)) ELSE 365

\* a limit of one more attempt
LimitExceededLate(retry) == retry > 4

LimitExceeded(retry) == retry > 3

\* the parameters as the broker gets them: dates become timestamps
Converted(params) ==
  IF params.date_format = "1"
    THEN [date_format |-> "0",
          range_from  |-> ParseDate(params.range_from),
          range_to    |-> ParseDate(params.range_to)]
    ELSE params

\* what a call of _fetch that waits for moreData returns
Merge(candles, moreData) ==
  IF moreData.success /\ moreData.candles # {}
    THEN [success |-> TRUE, candles |-> candles \cup moreData.candles]
    ELSE [success |-> TRUE, candles |-> candles]

\* a result travels through the calls of _fetch that wait for moreData, the
\* innermost (last) first
RECURSIVE Unwind(_, _)
Unwind(waiting, moreData) ==
  IF waiting = <<>>
    THEN moreData
    ELSE Unwind(SubSeq(waiting, 1, Len(waiting) - 1),
                Merge(waiting[Len(waiting)], moreData))

\* the innermost call of _fetch returns v
Return(f, v) ==
  [f EXCEPT !.pc = "done", !.waiting = <<>>, !.result = Some(Unwind(f.waiting, v))]

\* a call of _fetch up to its first await
Enter(f, params, retry) ==
  IF LimitExceeded(retry)
    THEN Return([f EXCEPT !.retry = retry, !.limit = TRUE],
                [success |-> FALSE, candles |-> {}])
    ELSE [f EXCEPT !.pc = "getHistory",
                   !.retry = retry,
                   !.original = params,
                   !.params = Converted(params),
                   !.calls = Append(@, [from |-> Converted(params).range_from,
                                        to   |-> Converted(params).range_to])]

\* the call sleeps and then calls _fetch(params, ..., retry + 1)
Backoff(f, params) == [f EXCEPT !.pc = "sleep", !.next = params]

\* the window of date strings is widened, the candles are dropped
ExpandDates(f, span) ==
  IF ParseDate(f.original.range_from - span * (f.retry + 1))
       <= f.now - limitD(f.res) * MinutesPerDay
    THEN f
    ELSE Backoff(f, [f.original EXCEPT
                       !.range_from = f.original.range_from - span * (f.retry + 1)])

\* the window of timestamps is widened, the call keeps its candles
ExpandUnix(f, candles, span) ==
  IF f.params.range_from - span * (f.retry + 1)
       <= f.now - limitD(f.res) * MinutesPerDay
    THEN f
    ELSE Backoff([f EXCEPT !.waiting = Append(@, candles)],
                 [f.params EXCEPT
                    !.range_from = f.params.range_from - span * (f.retry + 1)])

Expand(f, candles) ==
  IF f.original.date_format = "1"
    THEN ExpandDates(f, f.original.range_to - f.original.range_from)
    ELSE ExpandUnix(f, candles, f.params.range_to - f.params.range_from)

\* the broker answered s = "ok" with candles; enough says whether they are
\* at least the wanted number
Answered(f, candles, enough) ==
  IF enough \/ ~isIntra(f.res)
    THEN Return(f, [success |-> TRUE, candles |-> candles])
    ELSE \* a call that does not widen its window returns its candles
         IF Expand(f, candles).pc = "sleep"
           THEN Expand(f, candles)
           ELSE Return(f, [success |-> TRUE, candles |-> candles])

MaxElapsed == 2

FetchResolutions == {Res1, Res5, Res60, Res120, ResD, <<"6", "0", "0">>}

FetchTimes ==
  {StartDay * MinutesPerDay, NowTs, (StartDay + 1) * MinutesPerDay - 1}

FetchInit ==
  /\ fetch \in {[pc |-> "start", res |-> res, now |-> now, started |-> now,
                 elapsed |-> 0, retry |-> 0,
                 original |-> InitialParams(res, now),
                 params |-> InitialParams(res, now),
                 next |-> InitialParams(res, now),
                 waiting |-> <<>>, calls |-> <<>>, shorts |-> {},
                 limit |-> FALSE, result |-> Null] :
                  res \in FetchResolutions, now \in FetchTimes}
  /\ limiter = NoLimiter
  /\ svc = NoService
  /\ NormIdle
  /\ DbIdle
  /\ EngIdle

\* getHistoricalData builds the window and calls _fetch
StartFetch ==
  /\ fetch.pc = "start"
  /\ fetch' = Enter(fetch, InitialParams(fetch.res, fetch.now), 0)
  /\ UNCHANGED <<normVars, dbVars, engVars, limiter, svc>>

\* getHistory rejects, or answers without s = "ok" or without candles
BrokerFails ==
  /\ fetch.pc = "getHistory"
  /\ fetch' = Backoff(fetch, fetch.params)
  /\ UNCHANGED <<normVars, dbVars, engVars, limiter, svc>>

\* getHistory answers with fewer candles than wanted, perhaps with none
BrokerAnswersShort ==
  /\ fetch.pc = "getHistory"
  /\ \E some \in BOOLEAN :
       \E candles \in {IF some THEN {Len(fetch.calls)} ELSE {}} :
         fetch' = Answered([fetch EXCEPT !.shorts = @ \cup candles], candles, FALSE)
  /\ UNCHANGED <<normVars, dbVars, engVars, limiter, svc>>

\* getHistory answers with the wanted number of candles or more
BrokerAnswersFull ==
  /\ fetch.pc = "getHistory"
  /\ fetch' = Answered(fetch, {Len(fetch.calls)}, TRUE)
  /\ UNCHANGED <<normVars, dbVars, engVars, limiter, svc>>

\* the sleep before the next attempt is over
Wake ==
  /\ fetch.pc = "sleep"
  /\ fetch' = Enter(fetch, fetch.next, fetch.retry + 1)
  /\ UNCHANGED <<normVars, dbVars, engVars, limiter, svc>>

\* time passes while _fetch waits for the broker or sleeps
ClockAdvance ==
  /\ fetch.pc \in {"getHistory", "sleep"}
  /\ fetch.elapsed < MaxElapsed
  /\ fetch' = [fetch EXCEPT !.now = @ + 1, !.elapsed = @ + 1]
  /\ UNCHANGED <<normVars, dbVars, engVars, limiter, svc>>

FetchNext ==
  \/ StartFetch
  \/ BrokerFails
  \/ BrokerAnswersShort
  \/ BrokerAnswersFull
  \/ Wake
  \/ ClockAdvance

SpecFetch == FetchInit /\ [][FetchNext]_vars

\* the broker settles every request and every timer of sleep fires
SpecFetchFair == SpecFetch /\ WF_vars(FetchNext)

\* C12: one call of _fetch asks the broker at most four times, and it
\* returns a result whatever the broker answers
C12_AtMostFourCalls ==
  /\ [](Len(fetch.calls) <= 4)
  /\ <>(fetch.pc = "done" /\ fetch.result # Null)

C12_Witness ==
  fetch.pc = "done" /\ fetch.limit /\ Len(fetch.calls) = 4

\* the window of a request starts no earlier than the time the fetch was
\* started less the look-back cap of the resolution
C13_FromWithinLookback ==
  fetch.pc # "unused" =>
    \A i \in 1..Len(fetch.calls) :
      fetch.calls[i].from >= fetch.started - limitD(fetch.res) * MinutesPerDay

\* C13: the window of every request, initial or widened, starts no earlier
\* than the first minute of the calendar day that lies the look-back cap of
\* the resolution before the time the fetch was started
C13_FromWithinLookbackDays ==
  fetch.pc # "unused" =>
    \A i \in 1..Len(fetch.calls) :
      DayOf(fetch.calls[i].from) >=
        DayOf(fetch.started - limitD(fetch.res) * MinutesPerDay)

C13_Witness ==
  /\ fetch.pc = "done"
  /\ Len(fetch.calls) >= 2
  /\ fetch.calls[2].from < fetch.calls[1].from

\* C14: a fetch that gives up at the attempt limit after a short answer
\* that brought candles returns candles
C14_LimitReturnsAccumulated ==
  (fetch.pc = "done" /\ fetch.limit /\ fetch.shorts # {})
    => Val(fetch.result).candles # {}

(***************************************************************************)
(* RateLimiter: the token bucket of the TradingService                     *)
(***************************************************************************)

\* new RateLimiter(8)
maxPerMin == 8

MsPerMinute == 60 * 1000

\* tokens are counted in the amount one millisecond refills: rate is
\* maxPerMin / 60 tokens a second, so one token is 7500 of them
OneToken == MsPerMinute \div maxPerMin

\* Math.ceil((1 / this.rate) * 1000)
WaitMs == CeilDiv(MsPerMinute, maxPerMin)

\* the clock of the limiter model moves in steps of a third of a token
Quantum == OneToken \div 3

MaxWaiters == 2

MaxWaits == 11

MaxClock == 8

Waiters == 1..MaxWaiters

\* _refill without the cap of this.max
_refillUncapped(l) ==
  IF l.now - l.last > 0
    THEN [l EXCEPT !.tokens = l.tokens + (l.now - l.last), !.last = l.now]
    ELSE l

_refill(l) ==
  IF l.now - l.last > 0
    THEN [l EXCEPT !.tokens = Min2(maxPerMin * OneToken, l.tokens + (l.now - l.last)),
                   !.last = l.now]
    ELSE l

\* wait() after its refill, up to the sleep or to the return
Take(l, w) ==
  IF l.tokens < OneToken
    THEN [l EXCEPT !.pc[w] = "sleep", !.wakeAt[w] = l.now + WaitMs]
    ELSE [l EXCEPT !.tokens = @ - OneToken,
                   !.pc[w] = "idle",
                   !.completed = @ + 1,
                   !.took = Some(l.tokens)]

wait(l, w) == Take(_refill(l), w)

LimiterInit ==
  /\ limiter = [tokens |-> maxPerMin * OneToken, last |-> 0, now |-> 0,
                pc |-> [w \in Waiters |-> "idle"],
                wakeAt |-> [w \in Waiters |-> 0],
                waits |-> 0, completed |-> 0, took |-> Null]
  /\ fetch = NoFetch
  /\ svc = NoService
  /\ NormIdle
  /\ DbIdle
  /\ EngIdle

\* a caller calls wait()
CallWait ==
  /\ limiter.waits < MaxWaits
  /\ \E w \in Waiters :
       /\ limiter.pc[w] = "idle"
       /\ limiter' = wait([limiter EXCEPT !.waits = @ + 1], w)
  /\ UNCHANGED <<normVars, dbVars, engVars, fetch, svc>>

\* the sleep of a caller is over, on time or late: it calls wait() again
WakeWaiter ==
  /\ \E w \in Waiters :
       /\ limiter.pc[w] = "sleep"
       /\ limiter.now >= limiter.wakeAt[w]
       /\ limiter' = wait(limiter, w)
  /\ UNCHANGED <<normVars, dbVars, engVars, fetch, svc>>

TimePasses ==
  /\ limiter.now < MaxClock * Quantum
  /\ limiter' = [limiter EXCEPT !.now = @ + Quantum]
  /\ UNCHANGED <<normVars, dbVars, engVars, fetch, svc>>

LimiterNext == CallWait \/ WakeWaiter \/ TimePasses

SpecLimiter == LimiterInit /\ [][LimiterNext]_vars

\* C16: the tokens stay between 0 and maxPerMin, and every wait() that
\* completes takes exactly one token from a bucket that holds at least one
C16_TokensBounded ==
  /\ [](limiter # NoLimiter =>
          /\ 0 <= limiter.tokens
          /\ limiter.tokens <= maxPerMin * OneToken)
  /\ [][(limiter # NoLimiter /\ limiter'.completed # limiter.completed) =>
          /\ limiter'.completed = limiter.completed + 1
          /\ Val(limiter'.took) >= OneToken
          /\ limiter'.tokens = Val(limiter'.took) - OneToken
          /\ Val(limiter'.took) =
               Min2(maxPerMin * OneToken, limiter.tokens + (limiter.now - limiter.last))]_vars

C16_Witness ==
  /\ limiter # NoLimiter
  /\ limiter.completed > maxPerMin
  /\ limiter.tokens < OneToken
  /\ \E w \in Waiters : limiter.pc[w] = "sleep"

(***************************************************************************)
(* TradingService.getHistoricalData: limiter, spacing, cache and _fetch    *)
(***************************************************************************)

\* this.cacheTTL
cacheTTL == 5 * MsPerMinute

\* the least lag between this.lastCall and the next request
MinSpacing == 500

SecondsPerDay == 24 * 60 * 60

\* the clock of the service model moves in steps of half the spacing
SvcQuantum == MinSpacing \div 2

\* Date.now() when the model starts
SvcStart == maxPerMin * MinSpacing

MaxSvcTicks == 6

MaxSvcJumps == 1

SvcResolutions == {Res5, Res60}

\* the key of the memory cache: symbol, res, start and end in seconds
CacheKey(symbol, res, now) ==
  [symbol |-> symbol, res |-> res,
   start |-> (now \div 1000) - ((backDays(res) + 5) \div 10) * SecondsPerDay,
   end   |-> now \div 1000]

\* this.cache.get(key) with an entry younger than the TTL
CacheHit(cache, key, now) ==
  \E hit \in cache : hit.key = key /\ now - hit.ts < cacheTTL

\* this.cache.set(key, { ts: Date.now(), data })
CacheSet(cache, key, now) ==
  {hit \in cache : hit.key # key} \cup {[key |-> key, ts |-> now]}

\* a request of _fetch reaches the broker at the time now
CallBroker(s, id, now) ==
  [s EXCEPT !.calls = Append(@, now), !.reqs[id].pc = "getHistory",
            !.reqs[id].fetched = TRUE]

\* getHistoricalData from this.lastCall = Date.now() to its next await or
\* to its return from the cache
Proceed(s, id, key, now) ==
  IF CacheHit(s.cache, key, now)
    THEN [s EXCEPT !.lastCall = now, !.reqs[id].pc = "done",
                   !.reqs[id].doneAt = now, !.reqs[id].key = Some(key)]
    ELSE CallBroker([s EXCEPT !.lastCall = now, !.reqs[id].key = Some(key)], id, now)

\* getHistoricalData after limiter.wait()
Spacing(s, id, now) ==
  IF now - s.lastCall < MinSpacing
    THEN [s EXCEPT !.reqs[id].pc = "spacing",
                   !.reqs[id].wakeAt = now + (MinSpacing - (now - s.lastCall))]
    ELSE Proceed(s, id, CacheKey(s.reqs[id].symbol, s.reqs[id].res, now), now)

\* _fetch has returned: the result is cached and returned
Finish(s, id, now) ==
  [s EXCEPT !.cache = CacheSet(@, Val(s.reqs[id].key), now),
            !.reqs[id].pc = "done", !.reqs[id].doneAt = now]

\* sleep(1000 * 2 ** retry)
RECURSIVE BackoffMs(_)
BackoffMs(retry) == IF retry = 0 THEN 1000 ELSE 2 * BackoffMs(retry - 1)

\* _fetch(..., retry) from its call to the broker request or to its return
Attempt(s, id, retry, now) ==
  IF LimitExceeded(retry)
    THEN Finish([s EXCEPT !.reqs[id].retry = retry], id, now)
    ELSE CallBroker([s EXCEPT !.reqs[id].retry = retry], id, now)

\* a call of getHistoricalData; after holds the calls that had returned
\* when it was made
NewRequest(res, now, after) ==
  [symbol |-> "NSE:SBIN-EQ", res |-> res, pc |-> "wait", startedAt |-> now,
   after |-> after, doneAt |-> 0, wakeAt |-> 0, key |-> Null, retry |-> 0,
   fetched |-> FALSE]

\* a call whose await of wait() has resolved continues before a timer
\* fires, a broker answer is handled or the clock moves on
Continuing ==
  \E id \in 1..Len(svc.reqs) : svc.reqs[id].pc = "wait" /\ limiter.pc[id] = "idle"

\* the times the pending timers are due
DueTimes ==
  {svc.reqs[id].wakeAt :
     id \in {r \in 1..Len(svc.reqs) : svc.reqs[r].pc \in {"spacing", "backoff"}}}
  \cup {limiter.wakeAt[id] :
           id \in {r \in 1..Len(svc.reqs) : limiter.pc[r] = "sleep"}}

\* the clock may move on by d: timers fire when they are due
MayPass(d) == ~Continuing /\ \A due \in DueTimes : limiter.now + d <= due

\* a service just constructed, and a service that has just served a burst
\* of maxPerMin requests for other symbols, MinSpacing apart
SvcInit ==
  /\ \/ /\ limiter = [tokens |-> maxPerMin * OneToken, last |-> SvcStart,
                      now |-> SvcStart,
                      pc |-> [w \in Waiters |-> "idle"],
                      wakeAt |-> [w \in Waiters |-> 0],
                      waits |-> 0, completed |-> 0, took |-> Null]
        /\ svc = [lastCall |-> 0, cache |-> {}, reqs |-> <<>>, calls |-> <<>>,
                  ticks |-> 0, jumps |-> 0]
     \/ /\ limiter = [tokens |-> 0, last |-> MinSpacing, now |-> SvcStart,
                      pc |-> [w \in Waiters |-> "idle"],
                      wakeAt |-> [w \in Waiters |-> 0],
                      waits |-> maxPerMin, completed |-> maxPerMin,
                      took |-> Some(OneToken)]
        /\ svc = [lastCall |-> SvcStart, cache |-> {}, reqs |-> <<>>,
                  calls |-> [k \in 1..maxPerMin |-> k * MinSpacing],
                  ticks |-> 0, jumps |-> 0]
  /\ fetch = NoFetch
  /\ NormIdle
  /\ DbIdle
  /\ EngIdle

\* getHistoricalData(symbol, res) is called: up to the await of wait()
GetHistoricalData ==
  /\ Len(svc.reqs) < MaxWaiters
  /\ \E res \in SvcResolutions :
       /\ limiter' = wait(limiter, Len(svc.reqs) + 1)
       /\ svc' = [svc EXCEPT !.reqs = Append(@,
                    NewRequest(res, limiter.now,
                               {id \in 1..Len(svc.reqs) : svc.reqs[id].pc = "done"}))]
  /\ UNCHANGED <<normVars, dbVars, engVars, fetch>>

\* the sleep in wait() is over: wait() is called again
LimiterWakes ==
  /\ ~Continuing
  /\ \E id \in 1..Len(svc.reqs) :
       /\ limiter.pc[id] = "sleep"
       /\ limiter.now >= limiter.wakeAt[id]
       /\ limiter' = wait(limiter, id)
  /\ UNCHANGED <<normVars, dbVars, engVars, fetch, svc>>

\* wait() has returned
AfterWait ==
  /\ \E id \in 1..Len(svc.reqs) :
       /\ svc.reqs[id].pc = "wait"
       /\ limiter.pc[id] = "idle"
       /\ svc' = Spacing(svc, id, limiter.now)
  /\ UNCHANGED <<normVars, dbVars, engVars, fetch, limiter>>

\* the sleep that spaces the requests is over
AfterSpacing ==
  /\ ~Continuing
  /\ \E id \in 1..Len(svc.reqs) :
       /\ svc.reqs[id].pc = "spacing"
       /\ limiter.now >= svc.reqs[id].wakeAt
       /\ svc' = Proceed(svc, id,
                         CacheKey(svc.reqs[id].symbol, svc.reqs[id].res, limiter.now),
                         limiter.now)
  /\ UNCHANGED <<normVars, dbVars, engVars, fetch, limiter>>

\* the broker answers and _fetch returns the candles
SvcBrokerAnswers ==
  /\ ~Continuing
  /\ \E id \in 1..Len(svc.reqs) :
       /\ svc.reqs[id].pc = "getHistory"
       /\ svc' = Finish(svc, id, limiter.now)
  /\ UNCHANGED <<normVars, dbVars, engVars, fetch, limiter>>

\* the broker fails, or answers short and _fetch widens the window: _fetch
\* sleeps before the next attempt
SvcBackoff ==
  /\ ~Continuing
  /\ \E id \in 1..Len(svc.reqs) :
       /\ svc.reqs[id].pc = "getHistory"
       /\ svc' = [svc EXCEPT !.reqs[id].pc = "backoff",
                             !.reqs[id].wakeAt = limiter.now + BackoffMs(svc.reqs[id].retry)]
  /\ UNCHANGED <<normVars, dbVars, engVars, fetch, limiter>>

\* the sleep of _fetch is over: the next attempt
SvcRetry ==
  /\ ~Continuing
  /\ \E id \in 1..Len(svc.reqs) :
       /\ svc.reqs[id].pc = "backoff"
       /\ limiter.now >= svc.reqs[id].wakeAt
       /\ svc' = Attempt(svc, id, svc.reqs[id].retry + 1, limiter.now)
  /\ UNCHANGED <<normVars, dbVars, engVars, fetch, limiter>>

\* time passes, by a step of the clock or by the sleep of wait()
SvcTimePasses ==
  /\ \/ /\ svc.ticks < MaxSvcTicks
        /\ MayPass(SvcQuantum)
        /\ limiter' = [limiter EXCEPT !.now = @ + SvcQuantum]
        /\ svc' = [svc EXCEPT !.ticks = @ + 1]
     \/ /\ svc.jumps < MaxSvcJumps
        /\ MayPass(WaitMs)
        /\ limiter' = [limiter EXCEPT !.now = @ + WaitMs]
        /\ svc' = [svc EXCEPT !.jumps = @ + 1]
  /\ UNCHANGED <<normVars, dbVars, engVars, fetch>>

SvcNext ==
  \/ GetHistoricalData
  \/ LimiterWakes
  \/ AfterWait
  \/ AfterSpacing
  \/ SvcBrokerAnswers
  \/ SvcBackoff
  \/ SvcRetry
  \/ SvcTimePasses

SpecSvc == SvcInit /\ [][SvcNext]_vars

\* C15: a request made after an earlier request for the same symbol and
\* resolution has returned, and less than the TTL after it, makes no broker
\* call
C15_RepeatServedFromMemory ==
  svc # NoService =>
    \A i \in 1..Len(svc.reqs) : \A j \in 1..Len(svc.reqs) :
      (/\ svc.reqs[i].pc = "done"
       /\ svc.reqs[i].symbol = svc.reqs[j].symbol
       /\ svc.reqs[i].res = svc.reqs[j].res
       /\ i \in svc.reqs[j].after
       /\ svc.reqs[j].startedAt - svc.reqs[i].doneAt < cacheTTL)
        => ~svc.reqs[j].fetched

\* C17: two requests that reach the broker one after the other are at
\* least MinSpacing apart
C17_CallsSpaced ==
  svc # NoService =>
    \A k \in 2..Len(svc.calls) : svc.calls[k] - svc.calls[k - 1] >= MinSpacing

(***************************************************************************)
(* Claims about failed fetches and a failing store                         *)
(***************************************************************************)
\* C21: a call of tick for a symbol whose daily fetch came back without
\* candles requests the daily candles again
C21_ExhaustedFetchRetried ==
  [][(/\ Len(tasks') = Len(tasks) + 1
      /\ dailyMap[tasks'[Len(tasks')].symbol] = Some(<<>>))
       => tasks'[Len(tasks')].pc = "dailyFetch"]_vars

\* tick, lines 134-145, while the statements of the store throw: storeCandles
\* catches the error of its transaction and stores nothing
FailingFinishWith(m, t, daily) ==
  IF Len(daily) = 0
    THEN Goto(m, NewTask(t.symbol, t.ltp), "threw")
    ELSE Goto(analyze([m EXCEPT !.dailyMap[t.symbol] =
                                   Some([daily EXCEPT ![Len(daily)] =
                                           [daily[Len(daily)] EXCEPT !.c = t.ltp,
                                                                     !.h = Max2(@, t.ltp),
                                                                     !.l = Min2(@, t.ltp)]])],
                      t.symbol,
                      Abs(t.ltp - daily[Len(daily)].c) * 200 >= daily[Len(daily)].c),
              NewTask(t.symbol, t.ltp), "done")

\* tick(symbol, ltp) while the statements of the store throw.  #ensureDaily
\* calls getCandles outside any try (line 155); #ensureSMA catches the error
\* of getAllSMA (lines 178-198) and calls getCachedSMA outside any try
\* (line 201)
FailingTick(m, t) ==
  IF ~(FetchedToday(m, Tag(t.symbol, ResD), today) /\ m.dailyMap[t.symbol] # Null)
    THEN Goto(m, NewTask(t.symbol, t.ltp), "threw")
  ELSE IF ~(FetchedToday(m, Tag(t.symbol, m.smaRes), today) /\ m.smaMap[t.symbol] # Null)
    THEN Goto(m, NewTask(t.symbol, t.ltp), "threw")
  ELSE FailingFinishWith(m, t, Val(m.dailyMap[t.symbol]))

FaultScenarios == {"bull", "new"}

FaultInit ==
  /\ db = EmptyDB
  /\ dbLast = NoDbCall
  /\ dbCalls = 0
  /\ dbResult = Null
  /\ NormIdle
  /\ ServiceIdle
  /\ smaRes = Res60
  /\ dailyMap = [sym \in Symbols |-> Null]
  /\ smaMap = [sym \in Symbols |-> Null]
  /\ state = [sym \in Symbols |-> Null]
  /\ resolutionSMA = [i \in 1..Len(KeyResolutions) |-> [sym \in Symbols |-> Null]]
  /\ lastFetch = [tag \in {} |-> 0]
  /\ emitted = <<>>
  /\ tasks = <<>>
  /\ today = StartDay
  /\ broker \in FaultScenarios
  /\ lastCall = NoCall
  /\ storage = "ok"
  /\ acd = NoAcd

\* a call of tick while the store works
HealthyTick == storage = "ok" /\ Tick

\* the disk fails: from now on every statement of the store throws
StorageBreaks ==
  /\ storage = "ok"
  /\ InFlight = {}
  /\ storage' = "failing"
  /\ UNCHANGED <<normVars, dbVars, svcVars, smaRes, dailyMap, smaMap, state,
                 resolutionSMA, lastFetch, emitted, tasks, today, broker, lastCall,
                 acd>>

\* a call of tick while the store fails
FaultyTick ==
  /\ storage = "failing"
  /\ Len(tasks) < MaxTicks
  /\ \E symbol \in TickSymbols, ltp \in TickPrices :
       \E r \in {FailingTick(Mem, NewTask(symbol, ltp))} :
         Commit(r.m) /\ tasks' = Append(tasks, r.t)
  /\ UNCHANGED <<normVars, svcVars, dbLast, dbCalls, dbResult, storage, acd, today, broker,
                 lastCall>>

FaultNext ==
  \/ HealthyTick
  \/ DailyFetchReturn
  \/ SMAFetchReturn
  \/ TimeframeFetchReturn
  \/ StorageBreaks
  \/ FaultyTick

SpecFault == FaultInit /\ [][FaultNext]_vars

\* C22: while the store fails no call of tick ends by throwing, and a call
\* for a symbol that is not loaded waits for the candles of the broker
C22_StorageErrorContained ==
  [][(storage = "failing" /\ Len(tasks') = Len(tasks) + 1) =>
       /\ tasks'[Len(tasks')].pc # "threw"
       /\ dailyMap[tasks'[Len(tasks')].symbol] = Null
            => tasks'[Len(tasks')].pc = "dailyFetch"]_vars

(***************************************************************************)
(* Specification of the rollup: rollup (strategy.js) and _rollup           *)
(* (tradingService.js) applied to arrays of up to MaxRollLen daily candles *)
(* of the days around the turn of the year, in any order of arrival        *)
(***************************************************************************)
MaxRollLen == 4

\* the days of the candles: 2024-01-02 (a Tuesday), 2024-12-27 (Friday),
\* 2024-12-30 (Monday), 2024-12-31, 2025-01-02 (Thursday), 2025-01-03
RollDays ==
  <<DaysFromCivil(2024, 1, 2), DaysFromCivil(2024, 12, 27), DaysFromCivil(2024, 12, 30),
    DaysFromCivil(2024, 12, 31), DaysFromCivil(2025, 1, 2), DaysFromCivil(2025, 1, 3)>>

\* the daily candle of each of the days
RollCandles ==
  <<Candle(RollDays[1] * MinutesPerDay + DailyStamp, 100, 110, 95, 105, 10),
    Candle(RollDays[2] * MinutesPerDay + DailyStamp, 105, 120, 100, 101, 20),
    Candle(RollDays[3] * MinutesPerDay + DailyStamp, 101, 108, 90, 107, 30),
    Candle(RollDays[4] * MinutesPerDay + DailyStamp, 107, 109, 99, 100, 40),
    Candle(RollDays[5] * MinutesPerDay + DailyStamp, 100, 130, 98, 125, 50),
    Candle(RollDays[6] * MinutesPerDay + DailyStamp, 125, 126, 80, 90, 60)>>

\* the arrays of distinct candles of length n
RECURSIVE RollInputs(_)
RollInputs(n) ==
  IF n = 0 THEN {<<>>}
  ELSE {Append(arr, RollCandles[i]) :
          arr \in RollInputs(n - 1),
          i \in 1..Len(RollCandles)}

Distinct(arr) == \A i, j \in 1..Len(arr) : arr[i] = arr[j] => i = j

RollInit ==
  /\ norm = [by |-> "none", input |-> <<>>, first |-> Null, second |-> Null]
  /\ roll \in {[mode |-> md, daily |-> arr, result |-> Null] :
                 md \in {"W", "M"},
                 arr \in {a \in UNION {RollInputs(n) : n \in 0..MaxRollLen} : Distinct(a)}}
  /\ DbIdle
  /\ EngIdle
  /\ ServiceIdle

\* rollup(daily, "W"), strategy.js lines 16-32; _rollup(daily, "W")
RollupWeekly ==
  /\ roll.mode = "W"
  /\ roll.result = Null
  /\ roll' = [roll EXCEPT !.result = Some(rollup(roll.daily, "W"))]
  /\ UNCHANGED <<norm, dbVars, engVars, svcVars>>

\* rollup(daily, "M"), strategy.js lines 16-32; _rollup(daily, "M")
RollupMonthly ==
  /\ roll.mode = "M"
  /\ roll.result = Null
  /\ roll' = [roll EXCEPT !.result = Some(rollup(roll.daily, "M"))]
  /\ UNCHANGED <<norm, dbVars, engVars, svcVars>>

RollNext ==
  \/ RollupWeekly
  \/ RollupMonthly

SpecRollup == RollInit /\ [][RollNext]_vars

(***************************************************************************)
(* Claims about the rollup                                                 *)
(***************************************************************************)
\* the positions in the input of the candles of the group with key k
RollMembers(k) ==
  {i \in 1..Len(roll.daily) : RollupKey(roll.daily[i], roll.mode) = k}

RollKeys == {RollupKey(roll.daily[i], roll.mode) : i \in 1..Len(roll.daily)}

FirstOf(S) == CHOOSE i \in S : \A j \in S : i <= j

LastOf(S) == CHOOSE i \in S : \A j \in S : i >= j

RECURSIVE VolumeOf(_)
VolumeOf(S) ==
  IF S = {} THEN 0 ELSE roll.daily[FirstOf(S)].v + VolumeOf(S \ {FirstOf(S)})

\* the candle the claim describes for the group with members S
Aggregate(S) ==
  Candle(roll.daily[FirstOf(S)].t,
         roll.daily[FirstOf(S)].o,
         CHOOSE h \in {roll.daily[i].h : i \in S} : \A i \in S : roll.daily[i].h <= h,
         CHOOSE l \in {roll.daily[i].l : i \in S} : \A i \in S : roll.daily[i].l >= l,
         roll.daily[LastOf(S)].c,
         VolumeOf(S))

\* C23: the rollup has one candle per group: the open of the group's first
\* candle in order of arrival, the highest high, the lowest low, the close of
\* its last candle and the sum of the volumes, with the timestamp of the
\* first candle; the candles are in ascending order of that timestamp
C23_RollupAggregates ==
  roll.result # Null =>
    LET out == Val(roll.result)
    IN  /\ Len(out) = Cardinality(RollKeys)
        /\ \A k \in RollKeys : \E j \in 1..Len(out) : out[j] = Aggregate(RollMembers(k))
        /\ \A j \in 1..(Len(out) - 1) : out[j].t <= out[j + 1].t

\* the case of C23: candles that arrived out of order were rolled up into
\* two groups, one of them of three candles
C23_Witness ==
  /\ roll.result # Null
  /\ Len(Val(roll.result)) = 2
  /\ \E k \in RollKeys : Cardinality(RollMembers(k)) = 3
  /\ \E i \in 1..(Len(roll.daily) - 1) : roll.daily[i].t > roll.daily[i + 1].t

\* the year of the ISO week a day falls in: the year of its Thursday
IsoWeekYear(day) == Year(day - IsoWeekday(day) + 4)

\* the period of a candle as the claim defines it
ClaimedPeriod(cndl, mode) ==
  IF mode = "W" THEN <<IsoWeek(DayOf(cndl.t)), IsoWeekYear(DayOf(cndl.t))>>
                ELSE <<Year(DayOf(cndl.t)), MonthOf(DayOf(cndl.t))>>

\* C29: two daily candles are rolled up into the same weekly candle exactly
\* if they fall in the same ISO week of the same ISO week-year, and into the
\* same monthly candle exactly if they fall in the same month of the same
\* year; every ISO week with a candle gives exactly one weekly candle
C29_GroupsAreCalendarPeriods ==
  roll.result # Null =>
    /\ \A i, j \in 1..Len(roll.daily) :
         (RollupKey(roll.daily[i], roll.mode) = RollupKey(roll.daily[j], roll.mode))
           <=> (ClaimedPeriod(roll.daily[i], roll.mode)
                  = ClaimedPeriod(roll.daily[j], roll.mode))
    /\ Len(Val(roll.result))
         = Cardinality({ClaimedPeriod(roll.daily[i], roll.mode) : i \in 1..Len(roll.daily)})

(***************************************************************************)
(* Specification of the reads of the candle store: getCachedSMA on the     *)
(* table the calls of SpecDB leave                                         *)
(***************************************************************************)
ReadPeriods == {20, 100, 200}

\* getCachedSMA(symbol, "D", period), lines 1017-1037: the call returns an
\* object in every branch; `value` is the value of the newest row that has
\* one, or null
GetCachedSMA ==
  /\ dbCalls < MaxDbCalls
  /\ \E period \in ReadPeriods :
       dbResult' = Some([op |-> "getCachedSMA", period |-> period, outcome |-> "returned",
                         value |-> getCachedSMA(db, DbSymbol, ResD, period)])
  /\ dbCalls' = dbCalls + 1
  /\ UNCHANGED <<normVars, db, dbLast, engVars, svcVars>>

DbReadNext ==
  \/ StoreCandles
  \/ CacheSMA
  \/ CacheAllSMA
  \/ GetCachedSMA

SpecDBRead == DbInit /\ [][DbReadNext]_vars

\* C24: getCachedSMA with a period other than 20, 50 and 200 ends with an
\* error, not with a value or an empty result
C24_UnsupportedPeriodRejected ==
  (dbResult # Null /\ Val(dbResult).period \notin {20, 50, 200})
    => Val(dbResult).outcome = "threw"

(***************************************************************************)
(* Claims about cacheSMA with too few candles                              *)
(***************************************************************************)
\* C25: a call of cacheSMA with fewer candles than the period leaves every
\* row of the table as it was
C25_ShortCacheSMALeavesRows ==
  [][(/\ dbCalls' = dbCalls + 1
      /\ dbLast'.op = "cacheSMA"
      /\ Len(CandlesOf(dbLast'.candles)) < dbLast'.period)
       => db' = db]_vars

\* the case of C25: SMA200 was to be cached for an array of 25 candles while
\* the table held rows
C25_Witness ==
  /\ dbLast.op = "cacheSMA"
  /\ dbLast.period = 200
  /\ Len(CandlesOf(dbLast.candles)) = ShortLen
  /\ db # EmptyDB

(***************************************************************************)
(* Claims about the candle of today                                        *)
(***************************************************************************)
\* the row of the daily partition of the symbol with the key of the candle
PersistedDaily(d, symbol, cndl) ==
  {r \in {Part(d, symbol, ResD)[i] : i \in 1..Len(Part(d, symbol, ResD))} :
     r.timestamp = FormatTimestamp(ResD, cndl.t)}

\* C27: a call of tick that ends for a symbol whose daily candles are loaded
\* sets the close of the last daily candle to the price, raises its high and
\* lowers its low to the price where the price is beyond them, leaves its
\* open, volume and timestamp and all earlier candles as they were, and the
\* stored daily row of that day equals the candle in memory
C27_TickUpdatesToday ==
  [][\A id \in 1..Len(tasks') :
       (/\ tasks'[id].pc = "done"
        /\ id > Len(tasks) \/ tasks[id].pc # "done"
        /\ dailyMap[tasks'[id].symbol] # Null
        /\ Len(Val(dailyMap[tasks'[id].symbol])) > 0)
         => LET old == Val(dailyMap[tasks'[id].symbol])
                new == Val(dailyMap'[tasks'[id].symbol])
                n   == Len(old)
                ltp == tasks'[id].ltp
            IN  /\ Len(new) = n
                /\ \A i \in 1..(n - 1) : new[i] = old[i]
                /\ new[n] = Candle(old[n].t, old[n].o, Max2(old[n].h, ltp),
                                   Min2(old[n].l, ltp), ltp, old[n].v)
                /\ \E r \in PersistedDaily(db', tasks'[id].symbol, new[n]) :
                     /\ r.unix_timestamp = new[n].t
                     /\ <<r.open, r.high, r.low, r.close, r.volume>>
                          = <<new[n].o, new[n].h, new[n].l, new[n].c, new[n].v>>]_vars

\* the case of C27: two calls have ended for the symbol, one with a price
\* above the candle's high and one with a price below its low
C27_Witness ==
  /\ \E id \in 1..Len(tasks) : tasks[id].pc = "done" /\ tasks[id].ltp = BasePrice + 10
  /\ \E id \in 1..Len(tasks) : tasks[id].pc = "done" /\ tasks[id].ltp = BasePrice - 10
  /\ \E symbol \in TickSymbols :
       /\ dailyMap[symbol] # Null
       /\ Len(Val(dailyMap[symbol])) > 1
       /\ Val(dailyMap[symbol])[Len(Val(dailyMap[symbol]))].h = BasePrice + 10
       /\ Val(dailyMap[symbol])[Len(Val(dailyMap[symbol]))].l = BasePrice - 10

(***************************************************************************)
(* Claims about the weekly and monthly conditions                          *)
(***************************************************************************)
\* the candle before the last one, the last period that has ended, closed
\* above its open
CompletedCandleUp(candles) ==
  candles[Len(candles) - 1].c > candles[Len(candles) - 1].o

\* C30: the weekly and the monthly condition of a verdict are those of the
\* last completed weekly and monthly candle, the one before the candle of
\* the period of today's live candle: true exactly if it closed above its
\* open
C30_CompletedPeriodDecides ==
  [][\A symbol \in Symbols :
       (/\ state'[symbol] # Null
        /\ state'[symbol] # state[symbol]
        /\ dailyMap'[symbol] # Null
        /\ Len(rollup(Val(dailyMap'[symbol]), "M")) > 1)
         => /\ Val(state'[symbol]).wkBull
                 <=> CompletedCandleUp(rollup(Val(dailyMap'[symbol]), "W"))
            /\ Val(state'[symbol]).moBull
                 <=> CompletedCandleUp(rollup(Val(dailyMap'[symbol]), "M"))]_vars

(***************************************************************************)
(* Specification of the engine on a day for which the broker has no daily  *)
(* candle yet: its newest daily candle is the candle of the day before     *)
(***************************************************************************)
StaleInit ==
  /\ db = EmptyDB
  /\ dbLast = NoDbCall
  /\ dbCalls = 0
  /\ dbResult = Null
  /\ NormIdle
  /\ ServiceIdle
  /\ smaRes = Res60
  /\ dailyMap = [sym \in Symbols |-> Null]
  /\ smaMap = [sym \in Symbols |-> Null]
  /\ state = [sym \in Symbols |-> Null]
  /\ resolutionSMA = [i \in 1..Len(KeyResolutions) |-> [sym \in Symbols |-> Null]]
  /\ lastFetch = [tag \in {} |-> 0]
  /\ emitted = <<>>
  /\ tasks = <<>>
  /\ today = StartDay
  /\ broker = "stale"
  /\ lastCall = NoCall
  /\ storage = "ok"
  /\ acd = NoAcd

SpecStale == StaleInit /\ [][Next]_vars

\* C28: no step changes the open, high, low or close of a daily candle of a
\* day before today
C28_EarlierDaysKept ==
  [][\A symbol \in Symbols :
       (dailyMap[symbol] # Null /\ dailyMap'[symbol] # Null) =>
         \A i \in 1..Len(Val(dailyMap[symbol])), j \in 1..Len(Val(dailyMap'[symbol])) :
           LET old == Val(dailyMap[symbol])[i]
               new == Val(dailyMap'[symbol])[j]
           IN  (DayOf(old.t) < today /\ new.t = old.t)
                 => <<new.o, new.h, new.l, new.c>> = <<old.o, old.h, old.l, old.c>>]_vars

(***************************************************************************)
(* Specification of the engine with two symbols: a call of tick may start  *)
(* while a call for the other symbol waits for the broker                  *)
(***************************************************************************)
TwoInit ==
  /\ db = EmptyDB
  /\ dbLast = NoDbCall
  /\ dbCalls = 0
  /\ dbResult = Null
  /\ NormIdle
  /\ ServiceIdle
  /\ smaRes = Res60
  /\ dailyMap = [sym \in Symbols |-> Null]
  /\ smaMap = [sym \in Symbols |-> Null]
  /\ state = [sym \in Symbols |-> Null]
  /\ resolutionSMA = [i \in 1..Len(KeyResolutions) |-> [sym \in Symbols |-> Null]]
  /\ lastFetch = [tag \in {} |-> 0]
  /\ emitted = <<>>
  /\ tasks = <<>>
  /\ today = StartDay
  /\ broker = "bull"
  /\ lastCall = NoCall
  /\ storage = "ok"
  /\ acd = NoAcd

\* tick(symbol, ltp) while no call for the same symbol waits
TickAlongside ==
  /\ Len(tasks) < MaxTicks
  /\ \E symbol \in Symbols, ltp \in TickPrices :
       /\ \A id \in InFlight : tasks[id].symbol # symbol
       /\ \E r \in {tick([m |-> Mem, t |-> NewTask(symbol, ltp)])} :
            Commit(r.m) /\ tasks' = Append(tasks, r.t)
  /\ UNCHANGED <<normVars, svcVars, dbLast, dbCalls, dbResult, storage, acd, today, broker, lastCall>>

TwoNext ==
  \/ TickAlongside
  \/ DailyFetchReturn
  \/ SMAFetchReturn
  \/ TimeframeFetchReturn

SpecTwo == TwoInit /\ [][TwoNext]_vars

\* the daily candles and the SMA snapshot of the symbol are loaded for today
Hydrated(symbol) ==
  /\ FetchedToday(Mem, Tag(symbol, ResD), today)
  /\ dailyMap[symbol] # Null
  /\ Len(Val(dailyMap[symbol])) > 0
  /\ FetchedToday(Mem, Tag(symbol, smaRes), today)
  /\ smaMap[symbol] # Null

\* C26: a call of tick for a symbol that is loaded ends in the step it starts
\* in, without a request to the broker, also while a call for another symbol
\* waits for the broker; the waiting call is left as it is
C26_HydratedTickDoesNotWait ==
  [][(/\ Len(tasks') = Len(tasks) + 1
      /\ Hydrated(tasks'[Len(tasks')].symbol))
       => /\ tasks'[Len(tasks')].pc = "done"
          /\ \A id \in 1..Len(tasks) : tasks'[id] = tasks[id]]_vars

\* the case of C26: a call for a loaded symbol has ended while an earlier
\* call for the other symbol waits for the broker
C26_Witness ==
  \E a, b \in 1..Len(tasks) :
    /\ a < b
    /\ tasks[a].symbol # tasks[b].symbol
    /\ tasks[a].pc \in {"dailyFetch", "smaFetch", "tfFetch"}
    /\ tasks[b].pc = "done"
    /\ \E c \in 1..(a - 1) : tasks[c].symbol = tasks[b].symbol /\ tasks[c].pc = "done"

(***************************************************************************)
(* Claims about the limiter and the requests of the service                *)
(***************************************************************************)
\* C38: the requests that have reached the broker are never more than the
\* calls of wait() that have returned
C38_CallsWithinWaits ==
  svc # NoService => Len(svc.calls) <= limiter.completed

(***************************************************************************)
(* Specification of the limiter over unbounded time.  wait() and _refill() *)
(* read the clock only in the differences now - last and now - wakeAt, so  *)
(* the times are kept relative to now; a refill interval longer than a full*)
(* bucket and a timer that is due are kept at the bound.  Callers may call *)
(* wait() without limit; a timer fires at the instant it is due.           *)
(***************************************************************************)
Relative(l) ==
  [l EXCEPT !.now = 0,
            !.last = Max2(l.last - l.now, 0 - maxPerMin * OneToken),
            !.wakeAt = [w \in Waiters |->
                          IF l.pc[w] = "sleep" THEN Max2(l.wakeAt[w] - l.now, 0) ELSE 0],
            !.waits = 0, !.completed = 0, !.took = Null]

\* a caller that is not suspended calls wait()
LiveCallWait ==
  /\ \E w \in Waiters :
       /\ limiter.pc[w] = "idle"
       /\ limiter' = Relative(wait(limiter, w))
  /\ UNCHANGED <<normVars, dbVars, engVars, fetch, svc>>

\* the sleep of caller w is over: return this.wait()
LiveWake(w) ==
  /\ limiter.pc[w] = "sleep"
  /\ limiter.wakeAt[w] = 0
  /\ limiter' = Relative(wait(limiter, w))
  /\ UNCHANGED <<normVars, dbVars, engVars, fetch, svc>>

LiveWakeWaiter == \E w \in Waiters : LiveWake(w)

\* the clock moves on by a step unless a timer is due
LiveTimePasses ==
  /\ \A w \in Waiters : limiter.pc[w] = "sleep" => limiter.wakeAt[w] >= Quantum
  /\ limiter' = Relative([limiter EXCEPT !.now = Quantum])
  /\ UNCHANGED <<normVars, dbVars, engVars, fetch, svc>>

LiveNext ==
  \/ LiveCallWait
  \/ LiveWakeWaiter
  \/ LiveTimePasses

\* time advances and every timer that is due fires
SpecLimiterLive ==
  /\ LimiterInit
  /\ [][LiveNext]_vars
  /\ WF_vars(LiveTimePasses)
  /\ \A w \in Waiters : WF_vars(LiveWake(w))

\* C39: every call of wait() that is suspended returns in the end
C39_EveryWaitReturns ==
  \A w \in Waiters : (limiter.pc[w] = "sleep") ~> (limiter.pc[w] = "idle")

(***************************************************************************)
(* Claims about the sequence of events of a symbol                         *)
(***************************************************************************)
\* C36: the events of a symbol are "bullish" and "clear" in turn, the first
\* a "bullish", and the stored verdict of the symbol is bullish exactly when
\* one more "bullish" than "clear" has been emitted for it
C36_OpensAndClearsAlternate ==
  \A symbol \in Symbols :
    LET types == EventTypes(emitted, 1, symbol)
    IN  /\ \A i \in 1..Len(types) :
             types[i] = IF i % 2 = 1 THEN "bullish" ELSE "clear"
        /\ IsBullish(state[symbol]) <=> Len(types) % 2 = 1

\* the case of C36: a symbol's signal was opened, cleared and opened again
C36_Witness ==
  \E symbol \in Symbols :
    /\ EventTypes(emitted, 1, symbol) = <<"bullish", "clear", "bullish">>
    /\ IsBullish(state[symbol])

\* C37: every "clear" event carries the key of the last "bullish" event
\* emitted for its symbol before it
C37_ClearMatchesOpen ==
  \A i \in 1..Len(emitted) :
    emitted[i].type = "clear" =>
      \E j \in 1..(i - 1) :
        /\ emitted[j].type = "bullish"
        /\ emitted[j].key = emitted[i].key
        /\ \A k \in (j + 1)..(i - 1) :
             ~(emitted[k].type = "bullish" /\ emitted[k].key[1] = emitted[i].key[1])

(***************************************************************************)
(* Claims about the markers of the loaders                                 *)
(***************************************************************************)
\* C32: while the resolution is unchanged, a call of tick for a symbol whose
\* tag is marked as loaded today does not make #ensureSMA request candles
C32_OneSMARequestPerDay ==
  [][\A id \in 1..Len(tasks') :
       (/\ tasks'[id].pc = "smaFetch"
        /\ id > Len(tasks)
        /\ lastCall.n = 0)
         => ~FetchedToday(Mem, Tag(tasks'[id].symbol, smaRes), today)]_vars

(***************************************************************************)
(* analyzeCurrentData (strategy.js lines 600-616) and the change of the     *)
(* date.  The call hydrates the SMA snapshot of every known symbol and      *)
(* then calls tick for every known symbol with the last close of its daily  *)
(* window; it waits wherever #ensureSMA or tick wait.                       *)
(***************************************************************************)
\* the order of the keys of this.dailyMap
SymbolOrder == <<"NSE:SBIN-EQ", "NSE:TCS-EQ">>

IsKnown(symbol) == dailyMap[symbol] # Null

\* line 601: [...this.dailyMap.keys()]
KnownSymbols == SelectSeq(SymbolOrder, IsKnown)

\* #ensureSMA(symbol) as analyzeCurrentData awaits it, lines 166-252: the call
\* s.t goes on until it waits for a history request or returns (pc "finish")
hydrate(s) == TimeframeLoop(AtEnsureAllTimeframeSMAs(AtEnsureSMA(s)))

\* the call of analyzeCurrentData a waits in, or has finished, the inner call
\* r.t for a.symbols[i]
AcdAt(a, pc, i, r) == [m |-> r.m, a |-> [a EXCEPT !.pc = pc, !.i = i, !.t = r.t]]

\* lines 605-608: this.smaMap.delete(s); await this.#ensureSMA(s)
AcdHydrate(m, a, i) ==
  AcdAt(a, "hydrating", i,
        hydrate([m |-> [m EXCEPT !.smaMap[a.symbols[i]] = Null],
                 t |-> [NewTask(a.symbols[i], 0) EXCEPT !.pc = "ensureSMA"]]))

\* lines 611-613: const close = this.dailyMap.get(s).at(-1)[C]; await
\* this.tick(s, close).  On an empty window at(-1) is undefined and the read of
\* [C] throws a TypeError.
AcdTickWith(m, a, i, daily) ==
  IF Len(daily) = 0
    THEN [m |-> m, a |-> [a EXCEPT !.pc = "threw", !.i = i]]
    ELSE AcdAt(a, "ticking", i,
               tick([m |-> m, t |-> NewTask(a.symbols[i], daily[Len(daily)].c)]))

AcdTick(m, a, i) == AcdTickWith(m, a, i, Val(m.dailyMap[a.symbols[i]]))

\* line 614: results.push(this.state.get(s)); fresh records the symbols whose
\* verdict #analyze computed in this call of tick (it returns early at line 391
\* and computes none when data are missing)
AcdPush(m, a) ==
  [a EXCEPT !.results = Append(@, m.state[a.symbols[a.i]]),
            !.fresh = IF NotEnoughData(m, a.symbols[a.i]) THEN @
                      ELSE @ \cup {a.symbols[a.i]}]

\* lines 605-616: the two loops, from the inner call a.t on, until the call
\* waits or ends
RECURSIVE AcdLoop(_)
AcdLoop(s) ==
  CASE s.a.pc = "hydrating" /\ s.a.t.pc = "finish" ->
         IF s.a.i < Len(s.a.symbols)
           THEN AcdLoop(AcdHydrate(s.m, s.a, s.a.i + 1))
           ELSE AcdLoop(AcdTick(s.m, s.a, 1))
    [] s.a.pc = "ticking" /\ s.a.t.pc = "done" ->
         IF s.a.i < Len(s.a.symbols)
           THEN AcdLoop(AcdTick(s.m, AcdPush(s.m, s.a), s.a.i + 1))
           ELSE [m |-> s.m, a |-> [AcdPush(s.m, s.a) EXCEPT !.pc = "returned"]]
    [] s.a.pc = "ticking" /\ s.a.t.pc = "threw" ->
         [m |-> s.m, a |-> [s.a EXCEPT !.pc = "threw"]]
    [] OTHER -> s

\* the inner call goes on after its await: #ensureSMA in the first loop, tick
\* in the second
AcdInner(a, s) == IF a.pc = "ticking" THEN tick(s) ELSE hydrate(s)

AcdResume(a, r) == AcdLoop([m |-> r.m, a |-> [a EXCEPT !.t = r.t]])

\* analyzeCurrentData(), lines 600-616, up to its first suspension
analyzeCurrentData(m, symbols) ==
  IF Len(symbols) = 0
    THEN [m |-> m, a |-> [NoAcd EXCEPT !.pc = "returned"]]
    ELSE AcdLoop(AcdHydrate(m, [NoAcd EXCEPT !.symbols = symbols], 1))

\* the candles the history request of a waiting call is answered with
Answer(t) ==
  CASE t.pc = "dailyFetch" -> Serve(broker, ResD)
    [] t.pc = "smaFetch"   -> Serve(broker, t.req)
    [] t.pc = "tfFetch"    -> Serve(broker, KeyResolutions[t.tf])

\* the step of the inner call that follows the answer
AfterFetch(m, t, candles) ==
  CASE t.pc = "dailyFetch" -> AfterDailyFetch(m, t, candles)
    [] t.pc = "smaFetch"   -> AfterSMAFetch(m, t, candles)
    [] t.pc = "tfFetch"    -> AfterTimeframeFetch(m, t, candles)

AcdRunning == acd.pc \in {"hydrating", "ticking"}

\* Monday 2025-01-06, the trading day after the Friday the engine starts on
NextTradingDay == DaysFromCivil(2025, 1, 6)

\* the broker scenarios of the specification
RefreshScenarios == {"bull", "no120"}

\* the calls of tick made beside the calls of analyzeCurrentData
MaxRefreshTicks == 2

RefreshInit ==
  /\ db = EmptyDB
  /\ dbLast = NoDbCall
  /\ dbCalls = 0
  /\ dbResult = Null
  /\ NormIdle
  /\ ServiceIdle
  /\ smaRes = Res60
  /\ dailyMap = [sym \in Symbols |-> Null]
  /\ smaMap = [sym \in Symbols |-> Null]
  /\ state = [sym \in Symbols |-> Null]
  /\ resolutionSMA = [i \in 1..Len(KeyResolutions) |-> [sym \in Symbols |-> Null]]
  /\ lastFetch = [tag \in {} |-> 0]
  /\ emitted = <<>>
  /\ tasks = <<>>
  /\ today = StartDay
  /\ broker \in RefreshScenarios
  /\ lastCall = NoCall
  /\ storage = "ok"
  /\ acd = NoAcd

\* a call of analyzeCurrentData, made while no other call is in progress
AnalyzeCurrentData ==
  /\ acd.pc = "idle"
  /\ InFlight = {}
  /\ \E r \in {analyzeCurrentData(Mem, KnownSymbols)} :
       Commit(r.m) /\ acd' = r.a
  /\ UNCHANGED <<normVars, svcVars, dbLast, dbCalls, dbResult, storage, tasks, today,
                 broker, lastCall>>

\* the candles the call of analyzeCurrentData waits for arrive
AcdFetchReturn ==
  /\ AcdRunning
  /\ \E r \in {AcdResume(acd, AcdInner(acd, AfterFetch(Mem, acd.t, Answer(acd.t))))} :
       Commit(r.m) /\ acd' = r.a
  /\ UNCHANGED <<normVars, svcVars, dbLast, dbCalls, dbResult, storage, tasks, today,
                 broker, lastCall>>

\* midnight passes and the next trading day begins, while no call is in progress
NextDay ==
  /\ today = StartDay
  /\ InFlight = {}
  /\ ~AcdRunning
  /\ today' = NextTradingDay
  /\ UNCHANGED <<normVars, dbVars, svcVars, smaRes, dailyMap, smaMap, state,
                 resolutionSMA, lastFetch, emitted, tasks, broker, lastCall, storage, acd>>

\* the calls of tick are made before and after the call of analyzeCurrentData,
\* the call of setResolution before it
RefreshNext ==
  \/ ~AcdRunning /\ Len(tasks) < MaxRefreshTicks /\ Tick
  \/ DailyFetchReturn
  \/ SMAFetchReturn
  \/ TimeframeFetchReturn
  \/ acd.pc = "idle" /\ SetResolution
  \/ AnalyzeCurrentData
  \/ AcdFetchReturn
  \/ NextDay

SpecRefresh == RefreshInit /\ [][RefreshNext]_vars

\* a call of tick, made directly or by analyzeCurrentData, ends in this step
TickEnds(symbol) ==
  \/ \E id \in 1..Len(tasks') :
       /\ tasks'[id].symbol = symbol
       /\ tasks'[id].pc = "done"
       /\ id > Len(tasks) \/ tasks[id].pc # "done"
  \/ \E i \in Len(acd.results) + 1..Len(acd'.results) : acd'.symbols[i] = symbol

\* C31: a call of tick that analyses a symbol works on a daily window loaded on
\* the current date: after the date has changed, the window of the symbol ends
\* with the daily candle of the new date, whatever SMA hydration has run
C31_DailyReloadedOnNewDate ==
  [][\A symbol \in Symbols :
       TickEnds(symbol) /\ dailyMap'[symbol] # Null /\ Len(Val(dailyMap'[symbol])) > 0
         => DayOf(Val(dailyMap'[symbol])[Len(Val(dailyMap'[symbol]))].t) = today']_vars

\* C33: after setResolution has changed the resolution, analyzeCurrentData
\* returns one verdict per known symbol, each computed from the SMA snapshot
\* of the current resolution
C33_VerdictsOfNewResolution ==
  (/\ acd.pc = "returned"
   /\ lastCall.n > 0
   /\ ~lastCall.threw
   /\ smaRes # Res60)
    => /\ Len(acd.results) = Len(acd.symbols)
       /\ \A i \in 1..Len(acd.results) :
            /\ acd.results[i] # Null
            /\ acd.symbols[i] \in acd.fresh
            /\ smaMap[acd.symbols[i]] # Null
            /\ Val(acd.results[i]).s20 = Val(smaMap[acd.symbols[i]]).sma20
            /\ Val(acd.results[i]).s50 = Val(smaMap[acd.symbols[i]]).sma50
            /\ Val(acd.results[i]).s200 = Val(smaMap[acd.symbols[i]]).sma200

\* C34: a fetch that widened its window after a short intraday answer and
\* succeeds returns the candles of every answer it got: no candle of a short
\* answer is missing from the result, and the result holds nothing else
C34_ExpansionReturnsMerge ==
  (/\ fetch.pc = "done"
   /\ Val(fetch.result).success
   /\ Len(fetch.calls) >= 2)
    => /\ fetch.shorts \subseteq Val(fetch.result).candles
       /\ Val(fetch.result).candles \subseteq 1..Len(fetch.calls)

(***************************************************************************)
(* Specification of the candle store with failing statements: the calls of *)
(* SpecDB, and calls of storeCandles in which a statement throws           *)
(***************************************************************************)
\* the statements of storeCandles that may throw: the transaction of the
\* inserts (lines 958-959) and the statements of _recalcSMA (lines 1200-1236)
FailingStages == {"insert", "recalc"}

\* storeCandles(symbol, resolution, candlesArr), lines 900-965, when a
\* statement throws.  A transaction that throws is rolled back.  The inserts
\* are one transaction, committed at line 959 before _recalcSMA is called at
\* line 961; an error of _recalcSMA is caught at line 1238 or at line 962
\* and logged.
storeCandlesFailing(d, symbol, resolution, candlesArr, stage) ==
  IF Len(candlesArr) = 0 \/ stage = "insert" THEN d
  ELSE SetPart(d, symbol, normalizeResolution(resolution),
               InsertAll(Part(d, symbol, normalizeResolution(resolution)),
                         normalizeResolution(resolution), candlesArr))

\* a call of storeCandles in which a statement throws
StoreCandlesFails ==
  /\ dbCalls < MaxDbCalls
  /\ \E in \in StoreInputs, stage \in FailingStages :
       /\ db' = storeCandlesFailing(db, DbSymbol, in.resolution, CandlesOf(in.candles),
                                    stage)
       /\ dbLast' = DbCallRecord("storeCandles", in, 0)
  /\ dbCalls' = dbCalls + 1
  /\ UNCHANGED <<normVars, dbResult, engVars, svcVars>>

DbFaultNext ==
  \/ StoreCandles
  \/ CacheSMA
  \/ CacheAllSMA
  \/ StoreCandlesFails

SpecDBFault == DbInit /\ [][DbFaultNext]_vars

\* the rows have a row for every candle of the array
HoldsRowsOf(rows, nres, candlesArr) ==
  \A i \in 1..Len(candlesArr) :
    \E r \in 1..Len(rows) : rows[r].timestamp = FormatTimestamp(nres, candlesArr[i].t)

\* the partition was p before a call of storeCandles and is q after it
AtomicStore(p, q, nres, candlesArr) ==
  \/ q = p
  \/ HoldsRowsOf(q, nres, candlesArr) /\ q = _recalcSMA(q)

\* C35: after a call of storeCandles, whether its statements succeeded or
\* threw, the partition is as it was before the call, or it holds the rows of
\* the array and the SMA columns of all its rows are the recomputed ones
C35_StoreThenRecomputeAtomic ==
  [][(dbLast'.op = "storeCandles" /\ dbCalls' = dbCalls + 1)
       => AtomicStore(Part(db, DbSymbol, normalizeResolution(dbLast'.resolution)),
                      Part(db', DbSymbol, normalizeResolution(dbLast'.resolution)),
                      normalizeResolution(dbLast'.resolution),
                      CandlesOf(dbLast'.candles))]_vars
====
